---------------------------- MODULE Spec2Model ----------------------------
(***************************************************************************)
(* DocQueryAI: the retrieval-and-extraction pipeline.                      *)
(*                                                                         *)
(*   - MemStorage and the /api/upload, /api/query, /api/documents/:id      *)
(*     handlers of src/server/storage.ts, as a state machine whose steps   *)
(*     are the handlers' segments between suspension points;               *)
(*   - EmbeddingService.generateEmbedding (provider call, fallback);       *)
(*   - extractInformationFromContext, as an operator on strings, with the  *)
(*     regular expressions it builds matched the way String.match does     *)
(*     (leftmost match, greedy/lazy quantifiers, backtracking);            *)
(*   - PDFService.splitTextIntoChunks.                                     *)
(*                                                                         *)
(* Strings are TLA+ strings; a character is a string of length 1.          *)
(***************************************************************************)
EXTENDS Integers, Sequences, FiniteSets, TLC

(***************************************************************************)
(* The state.  The server machine (Spec) uses all but lab; the machines    *)
(* that exercise the extractor and the chunker on their own use lab and    *)
(* leave the server as it is after construction.                           *)
(***************************************************************************)
VARIABLES
  openai,            \* embeddingService.ts lines 3-6: a provider is configured
  documents,         \* MemStorage.documents, in insertion order
  documentChunks,    \* MemStorage.documentChunks, in insertion order
  queries,           \* MemStorage.queries, in insertion order
  nextId,            \* the next fresh document id (randomUUID)
  uploadReq,         \* the POST /api/upload requests
  queryReq,          \* the POST /api/query requests
  deleteReq,         \* the DELETE /api/documents/:id requests
  embedCalls,        \* history: calls of generateEmbedding
  providerCalls,     \* history: requests sent to the provider
  providerFailures,  \* history: provider requests that threw
  lab                \* the pure functions under test (second and third machine)

vars == <<openai, documents, documentChunks, queries, nextId, uploadReq, queryReq,
          deleteReq, embedCalls, providerCalls, providerFailures, lab>>

store == <<documents, documentChunks, queries>>
calls == <<embedCalls, providerCalls, providerFailures>>


(***************************************************************************)
(* String primitives: the String.prototype methods the code uses          *)
(***************************************************************************)
UpperLetters == "ABCDEFGHIJKLMNOPQRSTUVWXYZ"
LowerLetters == "abcdefghijklmnopqrstuvwxyz"
Digits == "0123456789"

At(s, i) == SubSeq(s, i, i)

CharsOf(s) == {At(s, i) : i \in 1..Len(s)}

UpperSet == CharsOf(UpperLetters)
LowerSet == CharsOf(LowerLetters)
DigitSet == CharsOf(Digits)
SpaceSet == {" ", "\n", "\t", "\r"}

LowerTable ==
  [c \in UpperSet |->
     LET i == CHOOSE j \in 1..Len(UpperLetters) : At(UpperLetters, j) = c
     IN  At(LowerLetters, i)]

LowerChar(c) == IF c \in UpperSet THEN LowerTable[c] ELSE c

\* the characters a..b of s, lower-cased (by halves)
RECURSIVE LowerRange(_, _, _)
LowerRange(s, a, b) ==
  IF a > b THEN ""
  ELSE IF a = b THEN LowerChar(At(s, a))
  ELSE LET mid == (a + b) \div 2
       IN  LowerRange(s, a, mid) \o LowerRange(s, mid + 1, b)

\* String.prototype.toLowerCase
toLowerCase(s) == LowerRange(s, 1, Len(s))

\* s.slice(from0, to0) / s.substring(from0, to0) with 0-based, end-exclusive
\* indices already clamped to 0..Len(s)
slice(s, from0, to0) == IF to0 <= from0 THEN "" ELSE SubSeq(s, from0 + 1, to0)

Min2(a, b) == IF a < b THEN a ELSE b
Max2(a, b) == IF a > b THEN a ELSE b

\* s.substring(0, n)
substring0(s, n) == slice(s, 0, Min2(n, Len(s)))

\* s.startsWith(t)
startsWith(s, t) == Len(t) <= Len(s) /\ SubSeq(s, 1, Len(t)) = t

\* s.indexOf(t, from0): 0-based index of the first occurrence at or after
\* from0, or -1
indexOf(s, t, from0) ==
  LET hits == {i \in from0..(Len(s) - Len(t)) : SubSeq(s, i + 1, i + Len(t)) = t}
  IN  IF hits = {} THEN -1 ELSE CHOOSE i \in hits : \A j \in hits : i <= j

\* s.lastIndexOf(t) for a single character t
lastIndexOf(s, t) ==
  LET hits == {i \in 0..(Len(s) - 1) : At(s, i + 1) = t}
  IN  IF hits = {} THEN -1 ELSE CHOOSE i \in hits : \A j \in hits : i >= j

\* s.includes(t)
includes(s, t) == indexOf(s, t, 0) # -1

RECURSIVE TrimLeftFrom(_, _)
TrimLeftFrom(s, i) ==
  IF i > Len(s) THEN i
  ELSE IF At(s, i) \in SpaceSet THEN TrimLeftFrom(s, i + 1) ELSE i

RECURSIVE TrimRightFrom(_, _)
TrimRightFrom(s, j) ==
  IF j < 1 THEN j
  ELSE IF At(s, j) \in SpaceSet THEN TrimRightFrom(s, j - 1) ELSE j

\* String.prototype.trim
trim(s) ==
  LET a == TrimLeftFrom(s, 1)
      b == TrimRightFrom(s, Len(s))
  IN  IF a > b THEN "" ELSE SubSeq(s, a, b)

RECURSIVE JoinFrom(_, _, _)
JoinFrom(parts, sep, i) ==
  IF i > Len(parts) THEN ""
  ELSE IF i = Len(parts) THEN parts[i]
  ELSE parts[i] \o sep \o JoinFrom(parts, sep, i + 1)

\* Array.prototype.join
join(parts, sep) == JoinFrom(parts, sep, 1)

(***************************************************************************)
(* Regular expressions, as String.prototype.match evaluates them.          *)
(* A pattern is a sequence of items:                                       *)
(*   [t |-> "lit", s, l]              the characters of s (l: lower-cased) *)
(*   [t |-> "cls", c, min, max, lazy] min..max characters of class c       *)
(*   [t |-> "open", g], [t |-> "close", g]   capture group g               *)
(*   [t |-> "alt", alts]              (?:a|b|...), each a pattern          *)
(*   [t |-> "wb"]                     \b                                   *)
(* Quantifiers try the longest run first (the shortest when lazy) and      *)
(* back off until the rest of the pattern matches.                         *)
(***************************************************************************)
Inf == 1000000

Lit(s) == [t |-> "lit", s |-> s, l |-> toLowerCase(s)]
Cls(c, lo, hi) == [t |-> "cls", c |-> c, min |-> lo, max |-> hi, lazy |-> FALSE]
ClsLazy(c, lo, hi) == [t |-> "cls", c |-> c, min |-> lo, max |-> hi, lazy |-> TRUE]
Open(g) == [t |-> "open", g |-> g]
Close(g) == [t |-> "close", g |-> g]
Alt(alts) == [t |-> "alt", alts |-> alts]
WordBoundary == [t |-> "wb"]

IsLetter(ch) == ch \in UpperSet \/ ch \in LowerSet
IsWordChar(ch) == IsLetter(ch) \/ ch \in DigitSet \/ ch = "_"

\* Does character ch belong to class c (ci: the i flag)?
ClassHas(c, ch, ci) ==
  CASE c = "s"       -> ch \in SpaceSet                          \* \s
    [] c = "d"       -> ch \in DigitSet                          \* \d
    [] c = "notdot"  -> ch # "."                                 \* [^.]
    [] c = "notcol"  -> ch # ":"                                 \* [^:]
    [] c = "notq"    -> ch # "?"                                 \* [^?]
    [] c = "AZ"      -> IF ci THEN IsLetter(ch) ELSE ch \in UpperSet   \* [A-Z]
    [] c = "az"      -> IF ci THEN IsLetter(ch) ELSE ch \in LowerSet   \* [a-z]
    [] c = "azs"     -> (IF ci THEN IsLetter(ch) ELSE ch \in LowerSet)
                          \/ ch \in SpaceSet                     \* [a-z\s]
    [] c = "cols"    -> ch = ":" \/ ch \in SpaceSet              \* [:\s]
    [] c = "dot"     -> ch \notin {"\n", "\r"}                   \* .
    [] OTHER         -> \* "=x": the literal character x, quantified
                        Len(c) = 2 /\ At(c, 1) = "="
                          /\ (IF ci THEN LowerChar(At(c, 2)) = ch ELSE At(c, 2) = ch)

\* With the i flag the subject string is lower-cased once, in match, and the
\* literals and classes are compared against it.
LitAt(s, i, it, ci) ==
  LET lit == IF ci THEN it.l ELSE it.s
  IN  i + Len(lit) - 1 <= Len(s) /\ SubSeq(s, i, i + Len(lit) - 1) = lit

\* Length of the run i..last when stops are the positions in it that end it
RunBefore(i, last, stops) ==
  IF stops = {} THEN Max2(0, last - i + 1)
  ELSE (CHOOSE j \in stops : \A k \in stops : j <= k) - i

RunWithin(s, i, last, c, ci) ==
  RunBefore(i, last, {j \in i..last : ~ClassHas(c, At(s, j), ci)})

\* Length of the longest run of class-c characters at position i, at most cap
RunLen(s, i, c, ci, cap) == RunWithin(s, i, Min2(Len(s), i + cap - 1), c, ci)

NoMatch == [ok |-> FALSE]
NoCaps == <<<<0, -1>>, <<0, -1>>>>

RECURSIVE MatchAt(_, _, _, _, _)
RECURSIVE TryRuns(_, _, _, _, _, _, _, _)
RECURSIVE TryAlts(_, _, _, _, _, _, _)

\* A quantified class whose longest run at i has n characters
MatchRun(it, rest, s, i, ci, caps, n) ==
  IF n < it.min THEN NoMatch
  ELSE TryRuns(rest, s, i, ci, caps, it.min, n, it.lazy)

\* Match items at position i of s (1-based); the first success in
\* backtracking order, or NoMatch.
MatchAt(items, s, i, ci, caps) ==
  IF items = <<>> THEN [ok |-> TRUE, end |-> i, caps |-> caps]
  ELSE
    LET it == Head(items)
        rest == Tail(items)
    IN  CASE it.t = "lit" ->
               IF LitAt(s, i, it, ci)
                 THEN MatchAt(rest, s, i + Len(it.s), ci, caps)
                 ELSE NoMatch
          [] it.t = "cls" ->
               MatchRun(it, rest, s, i, ci, caps, RunLen(s, i, it.c, ci, it.max))
          [] it.t = "open" ->
               MatchAt(rest, s, i, ci, [caps EXCEPT ![it.g] = <<i, -1>>])
          [] it.t = "close" ->
               MatchAt(rest, s, i, ci, [caps EXCEPT ![it.g] = <<caps[it.g][1], i - 1>>])
          [] it.t = "alt" ->
               TryAlts(it.alts, 1, rest, s, i, ci, caps)
          [] it.t = "wb" ->
               LET before == i > 1 /\ IsWordChar(At(s, i - 1))
                   after == i <= Len(s) /\ IsWordChar(At(s, i))
               IN  IF before # after THEN MatchAt(rest, s, i, ci, caps) ELSE NoMatch

\* Try the run lengths lo..hi of a quantified class, the longest first (the
\* shortest first when lazy); the range is searched by halves, in that order.
TryRuns(rest, s, i, ci, caps, lo, hi, lazy) ==
  IF lo = hi THEN MatchAt(rest, s, i + lo, ci, caps)
  ELSE LET mid == (lo + hi) \div 2
           r == IF lazy THEN TryRuns(rest, s, i, ci, caps, lo, mid, lazy)
                        ELSE TryRuns(rest, s, i, ci, caps, mid + 1, hi, lazy)
       IN  IF r.ok THEN r
           ELSE IF lazy THEN TryRuns(rest, s, i, ci, caps, mid + 1, hi, lazy)
           ELSE TryRuns(rest, s, i, ci, caps, lo, mid, lazy)

TryAlts(alts, a, rest, s, i, ci, caps) ==
  IF a > Len(alts) THEN NoMatch
  ELSE LET r == MatchAt(alts[a] \o rest, s, i, ci, caps)
       IN  IF r.ok THEN r ELSE TryAlts(alts, a + 1, rest, s, i, ci, caps)

\* The match r found at start position lo
FoundAt(lo, r) ==
  IF r.ok THEN [ok |-> TRUE, start |-> lo, end |-> r.end, caps |-> r.caps] ELSE NoMatch

\* The leftmost start position in lo..hi at which items match (by halves)
RECURSIVE SearchIn(_, _, _, _, _)
SearchIn(items, s, lo, hi, ci) ==
  IF lo > hi THEN NoMatch
  ELSE IF lo = hi THEN FoundAt(lo, MatchAt(items, s, lo, ci, NoCaps))
  ELSE LET mid == (lo + hi) \div 2
           r == SearchIn(items, s, lo, mid, ci)
       IN  IF r.ok THEN r ELSE SearchIn(items, s, mid + 1, hi, ci)

SearchFrom(items, s, i, ci) == SearchIn(items, s, i, Len(s) + 1, ci)

Folded(s, ci) == IF ci THEN toLowerCase(s) ELSE s

\* A pattern cannot match a string that lacks one of its literals (or every
\* literal of one of its alternations of literals): such a search is cut short.
Feasible(items, t, ci) ==
  \A k \in 1..Len(items) :
    LET it == items[k]
    IN  CASE it.t = "lit" -> includes(t, IF ci THEN it.l ELSE it.s)
          [] it.t = "alt" ->
               \E a \in 1..Len(it.alts) :
                 \A q \in 1..Len(it.alts[a]) :
                   it.alts[a][q].t = "lit" =>
                     includes(t, IF ci THEN it.alts[a][q].l ELSE it.alts[a][q].s)
          [] OTHER -> TRUE

SearchFolded(items, t, ci) ==
  IF Feasible(items, t, ci) THEN SearchFrom(items, t, 1, ci) ELSE NoMatch

\* s.match(re) without the g flag: the leftmost match
match(s, items, ci) == SearchFolded(items, Folded(s, ci), ci)

\* match[0] and match[g]
Group0(s, m) == SubSeq(s, m.start, m.end - 1)
Group(s, m, g) == SubSeq(s, m.caps[g][1], m.caps[g][2])


\* s.match(re) with the g flag: all matches, left to right, each search
\* resuming where the previous match ended
RECURSIVE MatchAllFrom(_, _, _, _, _)

\* the match m and the matches after it
MatchAllAfter(items, s, t, ci, m) ==
  IF ~m.ok THEN <<>>
  ELSE <<Group0(s, m)>> \o
       MatchAllFrom(items, s, t, IF m.end > m.start THEN m.end ELSE m.end + 1, ci)

MatchAllFrom(items, s, t, i, ci) ==
  MatchAllAfter(items, s, t, ci, SearchFrom(items, t, i, ci))

MatchAllFolded(items, s, t, ci) ==
  IF Feasible(items, t, ci) THEN MatchAllFrom(items, s, t, 1, ci) ELSE <<>>

matchAll(s, items, ci) == MatchAllFolded(items, s, Folded(s, ci), ci)

\* s.split(re) for a separator that is one or more characters of the set sep
\* ( /[.!?]+/ , /\s+/ ): the pieces between the maximal separator runs
splitOn(s, sep) ==
  LET n == Len(s)
      IsSep(i) == At(s, i) \in sep
      starts == {i \in 1..n : ~IsSep(i) /\ (i = 1 \/ IsSep(i - 1))}
      ends == {i \in 1..n : ~IsSep(i) /\ (i = n \/ IsSep(i + 1))}
      Nth(S, k) == CHOOSE i \in S : Cardinality({j \in S : j < i}) = k - 1
      runs == [k \in 1..Cardinality(starts) |-> SubSeq(s, Nth(starts, k), Nth(ends, k))]
      lead == IF n > 0 /\ IsSep(1) THEN <<"">> ELSE <<>>
      trail == IF n > 0 /\ IsSep(n) THEN <<"">> ELSE <<>>
  IN  IF n = 0 THEN <<"">> ELSE lead \o runs \o trail

SentenceEnd == {".", "!", "?"}

\* Array.prototype.some on sequences (filter is SelectSeq)
SomeIn(seq, P(_)) == \E i \in 1..Len(seq) : P(seq[i])

(***************************************************************************)
(* extractInformationFromContext(context, query)                           *)
(* The outcome is a record: kind "return" with the answer, or kind "throw" *)
(* when building a RegExp from the subject (or reading the typo table)     *)
(* raises.  site names the return statement that produced the answer and   *)
(* pat the index (from 1) of the definition pattern, 0 elsewhere.          *)
(***************************************************************************)
Return(site, answer) == [kind |-> "return", site |-> site, pat |-> 0, answer |-> answer]
ReturnPat(site, i, answer) == [kind |-> "return", site |-> site, pat |-> i, answer |-> answer]
Throw(what) == [kind |-> "throw", site |-> what, pat |-> 0, answer |-> ""]

\* query.match(/what is\s+([^?]+)/i) and its define / explain siblings
TriggerPattern(word) ==
  <<Lit(word), Cls("s", 1, Inf), Open(1), Cls("notq", 1, Inf), Close(1)>>

\* match ? match[1].trim() : ''
Captured(s, m) == IF m.ok THEN trim(Group(s, m, 1)) ELSE ""

SubjectAfter(query, word) == Captured(query, match(query, TriggerPattern(word), TRUE))

commonTechTerms == <<"javascript", "html", "css", "react", "node", "python", "java", "sql">>

\* the for loop over commonTechTerms: the first term the context contains
ResolvePronoun(subject, context) ==
  IF subject = "it more" \/ subject = "it"
    THEN LET lc == toLowerCase(context)
             hits == {i \in 1..Len(commonTechTerms) : includes(lc, commonTechTerms[i])}
         IN  IF hits = {} THEN subject
             ELSE commonTechTerms[CHOOSE i \in hits : \A j \in hits : i <= j]
    ELSE subject

\* the techTerms object literal
techTermKeys == {"html", "htm", "javascript", "js", "css", "react", "node", "python", "java"}

techTerms(key) ==
  CASE key = "html" -> "HTML"
    [] key = "htm" -> "HTML"
    [] key = "javascript" -> "JavaScript"
    [] key = "js" -> "JavaScript"
    [] key = "css" -> "CSS"
    [] key = "react" -> "React"
    [] key = "node" -> "Node.js"
    [] key = "python" -> "Python"
    [] key = "java" -> "Java"

\* techTerms is a plain object: these keys read a member inherited from
\* Object.prototype, a truthy non-string, and subject.toLowerCase() then
\* raises a TypeError
InheritedKeys == {"constructor", "__proto__"}

\* lines 164-183: the subject after the typo table
Normalized(subject) ==
  IF subject # "" /\ toLowerCase(subject) \in techTermKeys
    THEN techTerms(toLowerCase(subject))
    ELSE subject

\* lines 132-184: the subject, or "" when the query has none.
\* Pronoun resolution and the typo table are applied in the explain arm only.
ExtractSubject(context, query) ==
  LET lowerQuery == toLowerCase(query)
  IN  IF includes(lowerQuery, "what is") THEN SubjectAfter(query, "what is")
      ELSE IF includes(lowerQuery, "define") THEN SubjectAfter(query, "define")
      ELSE IF includes(lowerQuery, "explain")
        THEN Normalized(ResolvePronoun(SubjectAfter(query, "explain"), context))
      ELSE ""

\* line 178: does the typo-table lookup hand back a non-string?
SubjectIsObject(context, query) ==
  LET lowerQuery == toLowerCase(query)
  IN  /\ ~includes(lowerQuery, "what is")
      /\ ~includes(lowerQuery, "define")
      /\ includes(lowerQuery, "explain")
      /\ toLowerCase(ResolvePronoun(SubjectAfter(query, "explain"), context)) \in InheritedKeys

(***************************************************************************)
(* new RegExp(`...${subject}...`): the subject is pasted into the pattern  *)
(* source unescaped, so "." in it matches any character and "+" / "*"      *)
(* quantify the character before them ("c++" is a SyntaxError: nothing to  *)
(* repeat).  Subjects holding one of UnmodelledMeta are outside the inputs *)
(* this model draws.                                                       *)
(***************************************************************************)
UnmodelledMeta == {"(", ")", "[", "]", "{", "}", "|", "\\", "^", "$"}

RECURSIVE CompileFrom(_, _, _)
CompileFrom(subj, i, acc) ==
  IF i > Len(subj) THEN [ok |-> TRUE, items |-> acc]
  ELSE
    LET ch == At(subj, i)
        n == Len(acc)
        last == acc[n]
    IN  IF ch \in {"+", "*"}
          THEN IF n = 0 \/ (last.t = "cls" /\ last.max = Inf)
                 THEN [ok |-> FALSE, items |-> <<>>]
                 ELSE LET lo == IF ch = "+" THEN 1 ELSE 0
                          q == IF last.t = "cls" THEN Cls(last.c, lo, Inf)
                               ELSE Cls("=" \o last.s, lo, Inf)
                      IN  CompileFrom(subj, i + 1, SubSeq(acc, 1, n - 1) \o <<q>>)
        ELSE IF ch = "."
          THEN CompileFrom(subj, i + 1, acc \o <<Cls("dot", 1, 1)>>)
        ELSE CompileFrom(subj, i + 1, acc \o <<Lit(ch)>>)

CompileSubject(subj) == CompileFrom(subj, 1, <<>>)

Capture(c, lo, hi) == <<Open(1), Cls(c, lo, hi), Close(1)>>

\* lines 201-216: the seven definition patterns, in declared order
\* (sl: the compiled subjectLower, sj: the compiled subject)
definitionPatterns(sl, sj) ==
  << <<Lit("what is ")>> \o sl \o <<Lit("?"), Cls("notcol", 0, Inf), Lit("answer"),
                                   Cls("notcol", 0, Inf)>> \o Capture("notdot", 30, 800),
     <<Lit("what is ")>> \o sl \o <<Lit("?"), Cls("notcol", 0, Inf)>>
                                   \o Capture("notdot", 30, 800),
     sj \o <<Cls("s", 1, Inf), Lit("is"), Cls("s", 1, Inf)>> \o Capture("notdot", 30, 800),
     sj \o <<Cls("s", 1, Inf), Lit("means"), Cls("s", 1, Inf)>> \o Capture("notdot", 30, 800),
     sj \o <<Cls("s", 1, Inf), Lit("refers to"), Cls("s", 1, Inf)>> \o Capture("notdot", 30, 800),
     sj \o <<ClsLazy("notdot", 0, Inf)>> \o Capture("notdot", 50, 1000),
     sj \o <<Cls("s", 1, Inf)>> \o Capture("notdot", 30, 800) >>

definitionKeywords ==
  <<"is", "means", "refers to", "defined as", "a type of", "a form of", "used for",
    "purpose", "function", "language", "framework", "library", "technology", "tool">>

NotFoundMessage(subject) ==
  "Information about \"" \o subject \o "\" not found in the document."

NoDefinitionMessage(subject) ==
  "Information about \"" \o subject
    \o "\" is mentioned in the document but no definition or explanation is available."

\* line 246: the strict acceptance test of a captured result
\* (i is the 0-based pattern index of the loop)
AcceptsDefinition(result, subjectLower, i) ==
  LET lr == toLowerCase(result)
      hasDefinitionKeywords ==
        \E k \in 1..Len(definitionKeywords) : includes(lr, definitionKeywords[k])
      containsSubject == includes(lr, subjectLower)
      startsWithSubject == startsWith(lr, subjectLower)
      isAboutSubject == includes(lr, subjectLower \o " ") \/ includes(lr, " " \o subjectLower)
  IN  (hasDefinitionKeywords \/ i < 3)
        /\ (containsSubject /\ (startsWithSubject \/ isAboutSubject))

\* line 252: the second acceptance test, for queries asking for detail
AcceptsDetailed(result, subjectLower, lowerQuery) ==
  LET lr == toLowerCase(result)
      isDetailedExplanation ==
        includes(lowerQuery, "detail") \/ includes(lowerQuery, "more")
          \/ includes(lowerQuery, "explain")
  IN  /\ isDetailedExplanation
      /\ Len(result) > 50
      /\ includes(lr, subjectLower)
      /\ (startsWith(lr, subjectLower)
            \/ includes(lr, subjectLower \o " ") \/ includes(lr, " " \o subjectLower))

\* lines 265-273: is this sentence about the subject?
RelevantSentence(sentence, subjectLower) ==
  LET ls == toLowerCase(sentence)
  IN  /\ includes(ls, subjectLower)
      /\ Len(trim(sentence)) > 30
      /\ (includes(ls, "is ") \/ includes(ls, "means ")
            \/ includes(ls, "refers to ") \/ includes(ls, "defined as "))

\* lines 261-293: the sentence search that follows the patterns
\* lines 275-293: the answer made of the relevant sentences
SentenceAnswer(lowerQuery, subject, subjectLower, relevantSentences) ==
  LET three == trim(join(SubSeq(relevantSentences, 1, Min2(3, Len(relevantSentences))), " "))
      first == trim(relevantSentences[1])
  IN  IF Len(relevantSentences) > 0
          /\ (includes(lowerQuery, "detail") \/ includes(lowerQuery, "more"))
          /\ includes(toLowerCase(three), subjectLower)
        THEN Return("def.sentences", three)
      ELSE IF Len(relevantSentences) > 0 /\ includes(toLowerCase(first), subjectLower)
        THEN Return("def.sentence", first)
      ELSE Return("def.nodefinition", NoDefinitionMessage(subject))

SentenceSearch(context, lowerQuery, subject, subjectLower) ==
  SentenceAnswer(lowerQuery, subject, subjectLower,
                 SelectSeq(splitOn(context, SentenceEnd),
                           LAMBDA sentence : RelevantSentence(sentence, subjectLower)))

\* lines 218-259: the loop over the patterns, from 0-based index i
RECURSIVE PatternLoop(_, _, _, _, _, _)

\* lines 220-258: pattern i matched (ok) with the trimmed capture result,
\* or did not
PatternTried(patterns, i, context, lowerQuery, subject, subjectLower, ok, result) ==
  IF ok /\ Len(result) > 20 /\ AcceptsDefinition(result, subjectLower, i)
    THEN ReturnPat("def.pattern", i + 1, result)
  ELSE IF ok /\ Len(result) > 20 /\ AcceptsDetailed(result, subjectLower, lowerQuery)
    THEN ReturnPat("def.detailed", i + 1, result)
  ELSE PatternLoop(patterns, i + 1, context, lowerQuery, subject, subjectLower)

PatternMatched(patterns, i, context, lowerQuery, subject, subjectLower, m) ==
  PatternTried(patterns, i, context, lowerQuery, subject, subjectLower,
               m.ok, Captured(context, m))

PatternLoop(patterns, i, context, lowerQuery, subject, subjectLower) ==
  IF i >= Len(patterns)
    THEN SentenceSearch(context, lowerQuery, subject, subjectLower)
  ELSE PatternMatched(patterns, i, context, lowerQuery, subject, subjectLower,
                      match(context, patterns[i + 1], TRUE))

\* a variant of line 193 that takes every subject to be present; C7 tells it
\* from the code
SubjectAssumedPresent(context, subjectLower) == TRUE

\* line 193: the presence check that guards the whole definition branch
SubjectPresent(context, subjectLower) == includes(toLowerCase(context), subjectLower)

\* lines 186-294: the definition branch, entered with a non-empty subject
DefinitionBranch(context, query, subject) ==
  LET lowerQuery == toLowerCase(query)
      subjectLower == toLowerCase(subject)
      sl == CompileSubject(subjectLower)
      sj == CompileSubject(subject)
  IN  IF ~SubjectPresent(context, subjectLower)
        THEN Return("def.notfound", NotFoundMessage(subject))
      ELSE IF ~sl.ok \/ ~sj.ok
        THEN Throw("SyntaxError")
      ELSE PatternLoop(definitionPatterns(sl.items, sj.items), 0,
                       context, lowerQuery, subject, subjectLower)

(***************************************************************************)
(* The later intents (lines 296-515)                                       *)
(***************************************************************************)
Lits(words) == [i \in 1..Len(words) |-> <<Lit(words[i])>>]

\* [A-Z][a-z\s]+(?:suffix|...)
TitledName(suffixes) == <<Cls("AZ", 1, 1), Cls("azs", 1, Inf), Alt(Lits(suffixes))>>

projectSuffixes == <<"Manager", "Detector", "System", "App", "Application", "Tool", "Platform">>
collegeSuffixes == <<"University", "College", "Institute", "School">>
companySuffixes == <<"Technology", "Corp", "Corporation", "Inc", "LLC", "Ltd">>

ProjectName == <<Open(1)>> \o TitledName(projectSuffixes) \o <<Close(1)>>

\* lines 301-304 (both carry the g flag, neither the i flag)
projectPatterns ==
  << ProjectName,
     <<Open(1), Cls("AZ", 1, 1), Cls("azs", 1, Inf), Close(1), Lit("|")>> >>

RECURSIVE MapTrim(_)
MapTrim(seq) == IF seq = <<>> THEN <<>> ELSE <<trim(Head(seq))>> \o MapTrim(Tail(seq))

LongerThan3(m) == Len(m) > 3

\* lines 297-321
\* lines 306-313: the names the k-th pattern finds
ProjectsBy(context, k) ==
  SelectSeq(MapTrim(matchAll(context, projectPatterns[k], FALSE)), LongerThan3)

\* lines 315-320
ProjectsAnswer(projects) ==
  IF Len(projects) > 0
    THEN Return("project.names", join(SubSeq(projects, 1, Min2(3, Len(projects))), ", "))
    ELSE Return("project.none", "No projects found in the document.")

ProjectBranch(context) == ProjectsAnswer(ProjectsBy(context, 1) \o ProjectsBy(context, 2))

\* lines 324-343
NameAnswer(context, nameMatch, docNameMatch) ==
  IF nameMatch.ok THEN Return("name.match", Group(context, nameMatch, 1))
  ELSE IF docNameMatch.ok THEN Return("name.document", Group0(context, docNameMatch))
  ELSE Return("name.none", "Name not found")

NameBranch(context) ==
  NameAnswer(context,
             match(context, <<Open(1), Cls("AZ", 1, 1), Cls("az", 1, Inf), Lit(" "),
                              Cls("AZ", 1, 1), Cls("az", 1, Inf), Close(1)>>, FALSE),
             match(context, <<Lit("Shreyas Chougule")>>, FALSE))

College == <<Open(1)>> \o TitledName(collegeSuffixes) \o <<Close(1)>>

\* lines 351-359 (all carry the i flag)
collegePatterns ==
  << College,
     <<Lit("Education"), Cls("notdot", 0, Inf)>> \o College,
     <<Lit("Bachelor"), Cls("notdot", 0, Inf)>> \o College,
     <<Lit("Degree"), Cls("notdot", 0, Inf)>> \o College,
     College \o <<Cls("notdot", 0, Inf), Lit("Bachelor")>>,
     College \o <<Cls("notdot", 0, Inf), Lit("Degree")>>,
     College \o <<Cls("notdot", 0, Inf), Lit("Education")>> >>

\* for (const pattern of patterns): the first pattern of the list that
\* matches, its index and match, or index 0
RECURSIVE FirstMatchFrom(_, _, _, _)

FirstMatchAt(context, patterns, ci, k, m) ==
  IF m.ok THEN [k |-> k, m |-> m] ELSE FirstMatchFrom(context, patterns, ci, k + 1)

FirstMatchFrom(context, patterns, ci, k) ==
  IF k > Len(patterns) THEN [k |-> 0, m |-> NoMatch]
  ELSE FirstMatchAt(context, patterns, ci, k, match(context, patterns[k], ci))

FirstMatch(context, patterns, ci) == FirstMatchFrom(context, patterns, ci, 1)

\* lines 346-374
CollegeAnswer(context, f) ==
  IF f.k > 0 THEN ReturnPat("college.match", f.k, trim(Group(context, f.m, 1)))
  ELSE Return("college.snippet", trim(substring0(context, 300)))

CollegeBranch(context) == CollegeAnswer(context, FirstMatch(context, collegePatterns, TRUE))

Company == <<Open(1)>> \o TitledName(companySuffixes) \o <<Close(1)>>

\* lines 378-383 (all carry the i flag)
companyPatterns ==
  << Company,
     <<Lit("Work Experience"), Cls("notdot", 0, Inf)>> \o Company,
     <<Lit("Intern"), Cls("notdot", 0, Inf)>> \o Company,
     <<Lit("Software Development"), Cls("notdot", 0, Inf)>> \o Company >>

months == <<"Jan", "Feb", "Mar", "Apr", "May", "Jun", "Jul", "Aug", "Sep", "Oct", "Nov", "Dec">>

\* lines 395-400 (no flags)
datePatterns ==
  << <<Open(1), Alt(Lits(months)), Close(1), Cls("s", 1, Inf), Cls("d", 4, 4)>>,
     <<Cls("d", 4, 4), Cls("s", 0, Inf), Lit("-"), Cls("s", 0, Inf), Cls("d", 4, 4)>>,
     <<Cls("d", 1, 2), Lit("/"), Cls("d", 1, 2), Lit("/"), Cls("d", 4, 4)>>,
     <<Cls("d", 4, 4), Lit("-"), Cls("d", 2, 2), Lit("-"), Cls("d", 2, 2)>> >>

SkillLabel(label) == <<Lit(label), Cls("cols", 0, Inf), Open(1), Cls("notdot", 1, Inf), Close(1)>>

\* lines 464-469 (all carry the i flag)
skillPatterns ==
  << SkillLabel("Skills"), SkillLabel("Technical Skills"),
     SkillLabel("Programming Languages"), SkillLabel("Technologies") >>

\* lines 417 and 426: the project name with the sentence that follows it
Described(context, name) ==
  match(context, <<Open(1), Lit(name), ClsLazy("notdot", 0, Inf), Open(2),
                   Cls("notdot", 50, 300), Close(2), Close(1)>>, TRUE)

ImprovedProjectAnswer(context, lowerQuery, accidentMatch, tournamentMatch,
                      descriptionMatch, projectMatch, snippet) ==
  IF includes(lowerQuery, "explain") \/ includes(lowerQuery, "describe")
    THEN IF includes(lowerQuery, "accident") /\ accidentMatch.ok
           THEN Return("project2.accident", Group(context, accidentMatch, 1))
         ELSE IF (includes(lowerQuery, "tournament") \/ includes(lowerQuery, "manager"))
                  /\ tournamentMatch.ok
           THEN Return("project2.tournament", Group(context, tournamentMatch, 1))
         ELSE IF descriptionMatch.ok
           THEN Return("project2.description",
                       Group(context, descriptionMatch, 1) \o ": "
                         \o trim(Group(context, descriptionMatch, 2)))
         ELSE IF projectMatch.ok
           THEN Return("project2.name", Group(context, projectMatch, 1))
         ELSE snippet
  ELSE IF projectMatch.ok
    THEN Return("project2.name", Group(context, projectMatch, 1))
  ELSE snippet

\* lines 410-460: the second project block
ImprovedProjectBranch(context, lowerQuery) ==
  ImprovedProjectAnswer(
    context, lowerQuery,
    Described(context, "Accident Detector"),
    Described(context, "Tournament Manager"),
    match(context, ProjectName \o <<ClsLazy("notdot", 0, Inf), Open(2),
                                    Cls("notdot", 50, 200), Close(2)>>, FALSE),
    match(context, ProjectName, FALSE),
    Return("project2.snippet", trim(substring0(context, 300))))

\* line 493: lowerQuery.split(/\s+/).filter(word => word.length > 2)
LongerThan2(word) == Len(word) > 2
QueryWords(lowerQuery) == SelectSeq(splitOn(lowerQuery, SpaceSet), LongerThan2)

\* lines 490-498: one point per query word the sentence contains
SentenceScore(sentence, queryWords) ==
  LET ls == toLowerCase(sentence)
  IN  Cardinality({k \in 1..Len(queryWords) : includes(ls, queryWords[k])})

\* lines 487-505: the best sentence so far, scanning from index i
RECURSIVE BestSentence(_, _, _, _, _)
BestSentence(sentences, i, queryWords, bestMatch, bestScore) ==
  IF i > Len(sentences) THEN bestMatch
  ELSE LET sentence == sentences[i]
           score == SentenceScore(sentence, queryWords)
       IN  IF Len(trim(sentence)) > 20 /\ score > bestScore
             THEN BestSentence(sentences, i + 1, queryWords, trim(sentence), score)
             ELSE BestSentence(sentences, i + 1, queryWords, bestMatch, bestScore)

NotFoundLiteral == "Information not found in the document."

\* a variant of lines 508-514 without the context snippet: the "not found"
\* message is the answer whenever no sentence scores; C19 tells it from the
\* code
GenericAnswerOrNotFound(bestMatch, contextSnippet) ==
  IF bestMatch # "" THEN Return("generic.best", bestMatch)
  ELSE Return("generic.notfound", NotFoundLiteral)

\* lines 479-515
GenericAnswer(bestMatch, contextSnippet) ==
  IF bestMatch # "" THEN Return("generic.best", bestMatch)
  ELSE IF contextSnippet # "" THEN Return("generic.snippet", contextSnippet)
  ELSE Return("generic.notfound", NotFoundLiteral)

GenericFallback(context, lowerQuery) ==
  GenericAnswer(BestSentence(splitOn(context, SentenceEnd), 1, QueryWords(lowerQuery), "", 0),
                trim(substring0(context, 300)))

HasAny(lowerQuery, words) == \E w \in words : includes(lowerQuery, w)

\* lines 462-515: the skills intent, falling through to the generic fallback
SkillsAnswer(context, lowerQuery, f) ==
  IF HasAny(lowerQuery, {"skill", "technology", "programming"}) /\ f.k > 0
    THEN ReturnPat("skills.match", f.k, trim(Group(context, f.m, 1)))
    ELSE GenericFallback(context, lowerQuery)

FromSkills(context, lowerQuery) ==
  SkillsAnswer(context, lowerQuery, FirstMatch(context, skillPatterns, TRUE))

\* lines 393-515: the date intent, then the second project block, then skills
DateAnswer(context, lowerQuery, f) ==
  IF HasAny(lowerQuery, {"date", "when", "time"}) /\ f.k > 0
    THEN ReturnPat("date.match", f.k, Group0(context, f.m))
  ELSE IF includes(lowerQuery, "project")
    THEN ImprovedProjectBranch(context, lowerQuery)
  ELSE FromSkills(context, lowerQuery)

FromDate(context, lowerQuery) ==
  DateAnswer(context, lowerQuery, FirstMatch(context, datePatterns, FALSE))

\* lines 376-515: the employer intent, falling through to the date intent
CompanyAnswer(context, lowerQuery, f) ==
  IF HasAny(lowerQuery, {"company", "employer", "work"}) /\ f.k > 0
    THEN ReturnPat("company.match", f.k, trim(Group(context, f.m, 1)))
    ELSE FromDate(context, lowerQuery)

FromCompany(context, lowerQuery) ==
  CompanyAnswer(context, lowerQuery, FirstMatch(context, companyPatterns, TRUE))

\* a variant of lines 296-375 that tries the institution intent first; C25
\* tells it from the code
LaterIntentsCollegeFirst(context, lowerQuery) ==
  IF HasAny(lowerQuery, {"college", "university", "institute"})
    THEN CollegeBranch(context)
  ELSE IF includes(lowerQuery, "project") THEN ProjectBranch(context)
  ELSE IF includes(lowerQuery, "name")
            /\ (includes(lowerQuery, "candidate") \/ includes(lowerQuery, "person"))
    THEN NameBranch(context)
  ELSE FromCompany(context, lowerQuery)

\* lines 296-515: everything after the definition branch
LaterIntents(context, lowerQuery) ==
  IF includes(lowerQuery, "project") THEN ProjectBranch(context)
  ELSE IF includes(lowerQuery, "name")
            /\ (includes(lowerQuery, "candidate") \/ includes(lowerQuery, "person"))
    THEN NameBranch(context)
  ELSE IF HasAny(lowerQuery, {"college", "university", "institute"})
    THEN CollegeBranch(context)
  ELSE FromCompany(context, lowerQuery)
\* a variant that reads the store: the definition branch is entered only
\* while no query has been logged; C9 tells it from the code
EntersDefinitionBranchOnce(subject) == subject # "" /\ queries = <<>>


\* line 186: if (subject)
EntersDefinitionBranch(subject) == subject # ""
\* a variant in which the definition branch is not terminal: after its "not
\* found" message the later intents are tried; C8 tells it from the code
FallingThrough(context, query, subject, first) ==
  IF ~EntersDefinitionBranch(subject) \/ first.site = "def.notfound"
    THEN LaterIntents(context, toLowerCase(query))
    ELSE first

FallingThroughWith(context, query, subject) ==
  FallingThrough(context, query, subject, DefinitionBranch(context, query, subject))

extractFallingThrough(context, query) ==
  FallingThroughWith(context, query, ExtractSubject(context, query))


\* lines 125-515
ExtractWith(context, query, subject) ==
  IF SubjectIsObject(context, query) THEN Throw("TypeError")
  ELSE IF EntersDefinitionBranch(subject) THEN DefinitionBranch(context, query, subject)
  ELSE LaterIntents(context, toLowerCase(query))

extractInformationFromContext(context, query) ==
  ExtractWith(context, query, ExtractSubject(context, query))

(***************************************************************************)
(* PDFService.splitTextIntoChunks                                          *)
(* A chunk is carried as [text, pos]: pos is the 0-based offset, in the    *)
(* cleaned text, of the chunk's first character (for a window of a long    *)
(* question/answer pair: the offset of the pair plus the window's start).  *)
(***************************************************************************)
\* the characters a..b of s with every whitespace run collapsed to one space
RECURSIVE CollapseRange(_, _, _)
CollapseRange(s, a, b) ==
  IF a > b THEN ""
  ELSE IF a = b
    THEN IF At(s, a) \notin SpaceSet THEN At(s, a)
         ELSE IF a > 1 /\ At(s, a - 1) \in SpaceSet THEN "" ELSE " "
  ELSE LET mid == (a + b) \div 2
       IN  CollapseRange(s, a, mid) \o CollapseRange(s, mid + 1, b)

\* s.split(re) for a pattern with capture group 1: the text between the
\* matches, with the captured text spliced in after each piece.  Every piece
\* is [text, pos].
RECURSIVE SplitCapture(_, _, _, _, _)

\* the pieces from position from on, when m is the next match of the separator
SplitCaptureAt(s, t, items, ci, from, m) ==
  IF ~m.ok \/ m.start > Len(s)
    THEN <<[text |-> SubSeq(s, from, Len(s)), pos |-> from - 1]>>
    ELSE <<[text |-> SubSeq(s, from, m.start - 1), pos |-> from - 1],
           [text |-> Group(s, m, 1), pos |-> m.caps[1][1] - 1]>>
         \o SplitCapture(s, t, items, ci, m.end)

SplitCapture(s, t, items, ci, from) ==
  SplitCaptureAt(s, t, items, ci, from, SearchFrom(items, t, from, ci))

SplitCaptureFolded(s, t, items, ci) ==
  IF Feasible(items, t, ci) THEN SplitCapture(s, t, items, ci, 1)
  ELSE <<[text |-> s, pos |-> 0]>>

splitCapture(s, items, ci) == SplitCaptureFolded(s, Folded(s, ci), items, ci)

\* trim, keeping track of where the text now starts
TrimPiece(p) ==
  [text |-> trim(p.text), pos |-> p.pos + (TrimLeftFrom(p.text, 1) - 1)]

\* lines 146-177; start, end and breakPoint are the code's 0-based indices
RECURSIVE WindowLoop(_, _, _, _, _)

\* lines 156-159: the last period, newline or comma of the window
BreakPoint(window) ==
  Max2(lastIndexOf(window, "."), Max2(lastIndexOf(window, "\n"), lastIndexOf(window, ",")))

\* lines 171-173
PushTrimmed(piece) == IF piece.text # "" THEN <<piece>> ELSE <<>>

\* lines 155 and 161: end < section.length and
\* breakPoint > start + chunkSize * 0.6
Breaks(section, chunkSize, start, end, breakPoint) ==
  end < Len(section) /\ 10 * breakPoint > 10 * start + 6 * chunkSize

\* lines 152 and 162: the chunk of the window start..end
ChunkOf(section, chunkSize, start, end, breakPoint) ==
  IF Breaks(section, chunkSize, start, end, breakPoint)
    THEN slice(section, start, breakPoint + 1)
    ELSE slice(section, start, end)

\* a variant of lines 163-168 that takes the whole window back as overlap
\* after a hard cut; C29 tells it from the code
NextStartStaying(section, chunkSize, overlap, start, end, breakPoint) ==
  IF end >= Len(section) THEN end
  ELSE IF Breaks(section, chunkSize, start, end, breakPoint) THEN breakPoint + 1 - overlap
  ELSE end - chunkSize

\* lines 163-168: where the next window starts
NextStart(section, chunkSize, overlap, start, end, breakPoint) ==
  IF end >= Len(section) THEN end
  ELSE IF Breaks(section, chunkSize, start, end, breakPoint) THEN breakPoint + 1 - overlap
  ELSE end - overlap

\* lines 155-173: one pass of the loop, for the window start..end
Window(section, base, chunkSize, overlap, start, end, breakPoint) ==
  PushTrimmed(TrimPiece([text |-> ChunkOf(section, chunkSize, start, end, breakPoint),
                         pos |-> base + start]))
    \o WindowLoop(section, base, chunkSize, overlap,
                  NextStart(section, chunkSize, overlap, start, end, breakPoint))

WindowTo(section, base, chunkSize, overlap, start, end) ==
  Window(section, base, chunkSize, overlap, start, end,
         BreakPoint(slice(section, start, end)))

WindowLoop(section, base, chunkSize, overlap, start) ==
  IF start >= Len(section) THEN <<>>
  ELSE WindowTo(section, base, chunkSize, overlap, start,
                Min2(start + chunkSize, Len(section)))

splitSectionIntoChunks(section, base, chunkSize, overlap) ==
  WindowLoop(section, base, chunkSize, overlap, 0)

educationalKeywords ==
  <<"Q:", "Question:", "Answer:", "Interview", "Guide", "Preparation",
    "JavaScript", "React", "Node">>

\* lines 49-53
isEducationalDocument(text) ==
  \E k \in 1..Len(educationalKeywords) : includes(text, educationalKeywords[k])

\* lines 59-62 (both carry the g and i flags)
qaPatterns ==
  << <<Open(1), Alt(<< <<Lit("Q"), Cls("d", 1, Inf), Lit(":")>>,
                       <<Lit("Question"), Cls("s", 0, Inf), Cls("d", 0, Inf), Lit(":")>>,
                       <<Lit("Q"), Cls("s", 0, Inf), Cls("d", 0, Inf), Lit(":")>> >>),
       Close(1)>>,
     <<Open(1), Alt(Lits(<<"What is", "What are", "Define", "Explain">>)), Close(1),
       Cls("s", 1, Inf), Cls("notq", 1, Inf), Lit("?")>> >>

\* lines 67-83: the pairs (sections[i], sections[i+1]) for even i, from i
PairChunks(qaPair, pos, chunkSize, overlap) ==
  IF Len(qaPair) <= chunkSize THEN <<[text |-> qaPair, pos |-> pos]>>
  ELSE splitSectionIntoChunks(qaPair, pos, chunkSize, overlap)

\* lines 69-81: the trimmed question and answer of one pair
Pair(question, answer, chunkSize, overlap) ==
  IF question.text = "" \/ answer.text = "" THEN <<>>
  ELSE PairChunks(question.text \o "\n" \o answer.text, question.pos, chunkSize, overlap)

RECURSIVE PairLoop(_, _, _, _)
PairLoop(sections, i, chunkSize, overlap) ==
  IF i + 1 >= Len(sections) THEN <<>>
  ELSE Pair(TrimPiece(sections[i + 1]), TrimPiece(sections[i + 2]), chunkSize, overlap)
         \o PairLoop(sections, i + 2, chunkSize, overlap)

NonBlank(piece) == trim(piece.text) # ""

\* lines 64-89: the pairs the k-th pattern gives
PairsBy(text, k, chunkSize, overlap) ==
  PairLoop(splitCapture(text, qaPatterns[k], TRUE), 0, chunkSize, overlap)

\* lines 86-88: the first pattern that gives a chunk is the one used
FirstNonEmpty(byMarkers, byQuestions) ==
  IF Len(byMarkers) > 0 THEN byMarkers ELSE byQuestions

\* lines 91-96
PairsOrWindows(chunks, text, chunkSize, overlap) ==
  IF Len(chunks) = 0 THEN splitSectionIntoChunks(text, 0, chunkSize, overlap)
  ELSE SelectSeq(chunks, NonBlank)

\* a variant of lines 55-97 without the fall-back of lines 91-93 to plain
\* windows when no question-answer pair is found; C10 tells it from the code
splitEducationalContentPairsOnly(text, chunkSize, overlap) ==
  SelectSeq(FirstNonEmpty(PairsBy(text, 1, chunkSize, overlap),
                          PairsBy(text, 2, chunkSize, overlap)), NonBlank)

\* lines 55-97
splitEducationalContent(text, chunkSize, overlap) ==
  PairsOrWindows(FirstNonEmpty(PairsBy(text, 1, chunkSize, overlap),
                               PairsBy(text, 2, chunkSize, overlap)),
                 text, chunkSize, overlap)

sectionHeaders ==
  <<"Education", "Experience", "Work Experience", "Professional Experience",
    "Skills", "Technical Skills", "Projects", "Personal Projects",
    "Contact", "Contact Information", "About", "Summary", "Objective",
    "Certifications", "Languages", "Interests", "Hobbies">>

\* lines 113-128: one header of the list.  st = [sections, current, cpos,
\* lastIndex]; current is the section being collected and cpos its offset.
\* lines 121-123 and 134-136: push the trimmed section unless it is blank
Pushed(sections, current, cpos) ==
  sections \o (IF trim(current) # "" THEN <<TrimPiece([text |-> current, pos |-> cpos])>>
               ELSE <<>>)

\* lines 119-126
HeaderAt(text, st, headerIndex) ==
  IF headerIndex > st.lastIndex
    THEN [sections |-> Pushed(st.sections, st.current, st.cpos),
          current |-> slice(text, st.lastIndex, headerIndex),
          cpos |-> st.lastIndex,
          lastIndex |-> headerIndex]
    ELSE st

\* lines 117-118
HeaderMatched(text, st, m) ==
  IF m.ok THEN HeaderAt(text, st, indexOf(text, Group0(text, m), st.lastIndex)) ELSE st

HeaderStep(text, header, st) ==
  HeaderMatched(text, st, match(text, <<WordBoundary, Lit(header), WordBoundary>>, TRUE))

RECURSIVE HeaderLoop(_, _, _)
HeaderLoop(text, k, st) ==
  IF k > Len(sectionHeaders) THEN st
  ELSE HeaderLoop(text, k + 1, HeaderStep(text, sectionHeaders[k], st))

\* text.split(/\n\s*\n/)
RECURSIVE SplitPlain(_, _, _, _)

SplitPlainAt(s, items, ci, from, m) ==
  IF ~m.ok \/ m.start > Len(s)
    THEN <<[text |-> SubSeq(s, from, Len(s)), pos |-> from - 1]>>
    ELSE <<[text |-> SubSeq(s, from, m.start - 1), pos |-> from - 1]>>
         \o SplitPlain(s, items, ci, m.end)

SplitPlain(s, items, ci, from) ==
  SplitPlainAt(s, items, ci, from, SearchFrom(items, s, from, ci))

Paragraphs(text) ==
  IF text = "" THEN <<>>
  ELSE IF ~includes(text, "\n") THEN <<[text |-> text, pos |-> 0]>>
  ELSE SelectSeq(SplitPlain(text, <<Lit("\n"), Cls("s", 0, Inf), Lit("\n")>>, FALSE, 1),
                 NonBlank)

\* lines 99-144
\* lines 131-133
LastSection(text, st) ==
  IF st.lastIndex < Len(text) THEN st.current \o slice(text, st.lastIndex, Len(text))
  ELSE st.current

\* lines 139-143
SectionsOrParagraphs(text, sections) ==
  IF Len(sections) = 1 THEN Paragraphs(text) ELSE sections

\* lines 130-143: st is the state the header loop ends in
SectionsAfter(text, st) ==
  SectionsOrParagraphs(text, Pushed(st.sections, LastSection(text, st), st.cpos))

splitIntoSections(text) ==
  SectionsAfter(text, HeaderLoop(text, 1, [sections |-> <<>>, current |-> "", cpos |-> 0,
                                           lastIndex |-> 0]))

\* line 22-25: the clean-up of the raw text
CleanText(text) == trim(CollapseRange(text, 1, Len(text)))

RECURSIVE SectionLoop(_, _, _, _)
SectionLoop(sections, k, chunkSize, overlap) ==
  IF k > Len(sections) THEN <<>>
  ELSE LET section == sections[k]
       IN  (IF Len(section.text) <= chunkSize THEN <<TrimPiece(section)>>
            ELSE splitSectionIntoChunks(section.text, section.pos, chunkSize, overlap))
             \o SectionLoop(sections, k + 1, chunkSize, overlap)

\* lines 27-46
ChunksOfCleaned(cleanedText, chunkSize, overlap) ==
  IF isEducationalDocument(cleanedText)
    THEN splitEducationalContent(cleanedText, chunkSize, overlap)
    ELSE SelectSeq(SectionLoop(splitIntoSections(cleanedText), 1, chunkSize, overlap),
                   NonBlank)

\* lines 18-47
splitTextIntoChunks(text, chunkSize, overlap) ==
  ChunksOfCleaned(CleanText(text), chunkSize, overlap)

\* the texts of the chunks: the string[] the code returns
RECURSIVE TextsOf(_)
TextsOf(chunks) ==
  IF chunks = <<>> THEN <<>> ELSE <<Head(chunks).text>> \o TextsOf(Tail(chunks))

(***************************************************************************)
(* What the clients send in the server machine.  The pure functions are    *)
(* evaluated once for these inputs and looked up afterwards.               *)
(***************************************************************************)
DefaultChunkSize == 1000
DefaultOverlap == 200

NoFile == [present |-> FALSE, originalName |-> "", readable |-> FALSE, text |-> ""]
Pdf(name, text) == [present |-> TRUE, originalName |-> name, readable |-> TRUE, text |-> text]
Damaged(name) == [present |-> TRUE, originalName |-> name, readable |-> FALSE, text |-> ""]

\* what a client may send as the file of an upload
Files ==
  { NoFile,
    Damaged("bad.pdf"),
    Pdf("cv.pdf", "Ann Lee Education MIT Skills Java"),
    Pdf("net.pdf", "Skills: .NET"),
    Pdf("blank.pdf", "  \n ") }

\* what a client may send as the query
QueryTexts == {"", "skills", "lee skills", "what is java", "explain constructor"}

\* splitTextIntoChunks(text) of line 553 for each file a client may send
textChunksOf == [f \in Files |-> TextsOf(splitTextIntoChunks(f.text, DefaultChunkSize,
                                                             DefaultOverlap))]

EmbeddedTexts ==
  QueryTexts \cup UNION {{textChunksOf[f][i] : i \in 1..Len(textChunksOf[f])} : f \in Files}

(***************************************************************************)
(* EmbeddingService                                                        *)
(* A vector is [dim, at]: at maps the indices of its non-zero components   *)
(* to their values.  The fallback vector is kept before normalisation and  *)
(* scaled by 32, so its components are integers; the normalised vector the *)
(* code returns is this one divided by its Euclidean norm, a positive      *)
(* factor that cosineSimilarity cancels.                                   *)
(***************************************************************************)
\* The printable ASCII characters 32..95 and 97..126 (a TLA+ string cannot
\* hold the character 96)
AsciiLow == " !\"#$%&'()*+,-./0123456789:;<=>?@ABCDEFGHIJKLMNOPQRSTUVWXYZ[\\]^_"
AsciiHigh == "abcdefghijklmnopqrstuvwxyz{|}~"

CodeTable ==
  [c \in CharsOf(AsciiLow) \cup CharsOf(AsciiHigh) |->
     IF c \in CharsOf(AsciiLow)
       THEN 31 + (CHOOSE j \in 1..Len(AsciiLow) : At(AsciiLow, j) = c)
       ELSE 96 + (CHOOSE j \in 1..Len(AsciiHigh) : At(AsciiHigh, j) = c)]

\* String.prototype.charCodeAt
charCode(ch) ==
  CASE ch = "\n" -> 10
    [] ch = "\t" -> 9
    [] ch = "\r" -> 13
    [] OTHER -> CodeTable[ch]

FallbackDimension == 256
FallbackTextLimit == 5000
ProviderTextLimit == 8000
HalfWord == 65536

\* lines 22-27: hash = ((hash << 5) - hash + code) & 0xffffffff over the
\* characters of the word, on 32-bit words held as two 16-bit halves
RECURSIVE WordHashFrom(_, _, _, _)
WordHashFrom(word, i, hi, lo) ==
  IF i > Len(word) THEN [hi |-> hi, lo |-> lo]
  ELSE LET l == 31 * lo + charCode(At(word, i))
       IN  WordHashFrom(word, i + 1, (31 * hi + l \div HalfWord) % HalfWord, l % HalfWord)

\* Math.abs of the signed 32-bit hash, still as two halves
AbsHash(h) ==
  IF h.hi < HalfWord \div 2 THEN h
  ELSE LET lo == (HalfWord - h.lo) % HalfWord
           borrow == IF h.lo = 0 THEN 0 ELSE 1
       IN  [hi |-> HalfWord - h.hi - borrow, lo |-> lo]

\* lines 17-35: the buckets of the distinct word hashes
WordBuckets(limited) ==
  LET words == SelectSeq(splitOn(limited, SpaceSet), LongerThan2)
      wordHashes == {AbsHash(WordHashFrom(words[k], 1, 0, 0)) : k \in 1..Len(words)}
  IN  [idx \in 0..(FallbackDimension - 1) |->
         Cardinality({h \in wordHashes : h.lo % FallbackDimension = idx})]

\* lines 37-42: the character features, scaled by 32
CharFeature(limited, idx) ==
  LET hits == {i \in 1..Len(limited) :
                 (charCode(At(limited, i)) + (i - 1)) % FallbackDimension = idx}
      RECURSIVE Sum(_)
      Sum(S) == IF S = {} THEN 0
                ELSE LET i == CHOOSE j \in S : TRUE
                     IN  (charCode(At(limited, i)) % 31) + 1 + Sum(S \ {i})
  IN  Sum(hits)

Sparse(dim, f) ==
  [dim |-> dim, at |-> [i \in {j \in DOMAIN f : f[j] # 0} |-> f[i]]]

\* a variant of lines 11-47 without the character features of lines 37-42;
\* C12 tells it from the code
FallbackVectorWordsOnly(text) ==
  Sparse(FallbackDimension, WordBuckets(substring0(toLowerCase(text), FallbackTextLimit)))

\* lines 11-47 and 57-90: the deterministic fallback embedding
FallbackVector(text) ==
  LET limited == substring0(toLowerCase(text), FallbackTextLimit)
      buckets == WordBuckets(limited)
  IN  Sparse(FallbackDimension,
             [idx \in 0..(FallbackDimension - 1) |->
                32 * buckets[idx] + CharFeature(limited, idx)])

\* The provider is a black box, text -> vector: text-embedding-3-small answers
\* with 1536 components.  ProviderChoices are the vectors it is let to answer.
ProviderDimension == 1536
\* a vector the provider may answer with: ProviderDimension components
ProviderChoices ==
  { [dim |-> ProviderDimension, at |-> (0 :> 3 @@ 1 :> 4)] }

\* a variant of line 11 in which one failure switches the provider off for
\* good; C4 tells it from the code
UsesProviderUntilFailure(configured, failuresSoFar) == configured /\ failuresSoFar = 0

\* line 11: if (!openai), read on every call; nothing in the catch block
\* (lines 57-90) writes to it
UsesProvider(configured, failuresSoFar) == configured

\* the provider's part in one call: it is not asked, its request throws, or
\* it answers with a vector
NotAsked == [kind |-> "none", vector |-> [dim |-> 0, at |-> <<>>]]
Failed == [kind |-> "fail", vector |-> [dim |-> 0, at |-> <<>>]]
Answered(v) == [kind |-> "ok", vector |-> v]
ProviderReplies == {Failed} \cup {Answered(v) : v \in ProviderChoices}

\* lines 9-91: one call
fallbackOf == [t \in EmbeddedTexts |-> FallbackVector(t)]

generateEmbedding(text, reply) ==
  IF reply.kind = "ok" THEN reply.vector
  ELSE IF text \in EmbeddedTexts THEN fallbackOf[text]
  ELSE FallbackVector(text)

\* JSON.stringify of a number[] and JSON.parse of the result: every component
\* is a finite number and is read back as written; what changes is the type
Stringify(vector) == <<"json", vector>>
Parse(json) == json[2]
\* a stored embedding that is no JSON text, and one that is empty
Malformed == <<"text", [dim |-> 0, at |-> <<>>]>>
NoEmbedding == <<"", [dim |-> 0, at |-> <<>>]>>
\* part_002 line 33: !chunk.embedding
Missing(json) == json[1] = ""
\* JSON.parse returns on what JSON.stringify wrote and throws on other text
Parses(json) == json[1] = "json"

Dot(a, b) ==
  LET common == DOMAIN a.at \cap DOMAIN b.at
      RECURSIVE Sum(_)
      Sum(S) == IF S = {} THEN 0
                ELSE LET i == CHOOSE j \in S : TRUE
                     IN  a.at[i] * b.at[i] + Sum(S \ {i})
  IN  Sum(common)

\* lines 108-124.  The quotient dot / (sqrt(normA) * sqrt(normB)) is kept as
\* its three integers
cosineSimilarity(a, b) ==
  IF a.dim # b.dim THEN [kind |-> "throw"]
  ELSE [kind |-> "cos", dot |-> Dot(a, b), aa |-> Dot(a, a), bb |-> Dot(b, b)]

\* lines 45-46: vector.reduce((s, v) => s + v * v, 0), and the square of the
\* Euclidean norm of the vector returned, v / (Math.sqrt(sum) || 1), as the
\* fraction num / den: the divisor is 1 when the sum is 0
NormSquare(vector) ==
  [num |-> Dot(vector, vector),
   den |-> IF Dot(vector, vector) = 0 THEN 1 ELSE Dot(vector, vector)]

(***************************************************************************)
(* Similarities.  A similarity is kept exact: [kind |-> "lex", score] is   *)
(* score / 10 and [kind |-> "cos", dot, aa, bb] is dot / sqrt(aa * bb).    *)
(* All components of the vectors here are >= 0, so two similarities        *)
(* compare as their squares, and those as fractions.                       *)
(***************************************************************************)
\* p/q >= r/s for p, r >= 0 and q, s > 0, by Euclid's algorithm (no product)
RECURSIVE FracGeq(_, _, _, _)
FracGeq(p, q, r, s) ==
  LET a == p \div q
      b == r \div s
      p2 == p % q
      r2 == r % s
  IN  IF a # b THEN a > b
      ELSE IF r2 = 0 THEN TRUE
      ELSE IF p2 = 0 THEN FALSE
      ELSE FracGeq(s, r2, q, p2)

IsNaN(sim) == sim.kind = "cos" /\ (sim.aa = 0 \/ sim.bb = 0)

SquareNum(sim) == IF sim.kind = "lex" THEN sim.score * sim.score ELSE sim.dot * sim.dot
SquareDen(sim) == IF sim.kind = "lex" THEN 100 ELSE sim.aa * sim.bb

\* a >= b on similarities (false when either is NaN, as in IEEE arithmetic)
SimGeq(a, b) ==
  ~IsNaN(a) /\ ~IsNaN(b) /\ FracGeq(SquareNum(a), SquareDen(a), SquareNum(b), SquareDen(b))

SimGt(a, b) == ~IsNaN(a) /\ ~IsNaN(b) /\ ~SimGeq(b, a)

Tenths(k) == [kind |-> "lex", score |-> k]

\* Math.round(similarity * 100), the similarity in hundredths
Hundredths(sim) ==
  IF sim.kind = "lex" THEN 10 * sim.score
  ELSE LET reached == {r \in 1..100 :
                         FracGeq(SquareNum(sim), SquareDen(sim), (2 * r - 1) * (2 * r - 1), 40000)}
       IN  IF reached = {} THEN 0 ELSE CHOOSE r \in reached : \A q \in reached : q <= r

\* lines 742-744
Relevance(sim) ==
  IF SimGt(sim, Tenths(9)) THEN "Very High"
  ELSE IF SimGt(sim, Tenths(8)) THEN "High"
  ELSE IF SimGt(sim, Tenths(7)) THEN "Medium"
  ELSE "Low"

\* Array.prototype.sort((a, b) => b.similarity - a.similarity): descending
\* and stable.  An entry goes after the entries that are not smaller than it.
InsertDesc(sorted, e) ==
  LET keep == {k \in 0..Len(sorted) :
                 \A j \in 1..k : SimGeq(sorted[j].similarity, e.similarity)}
      k == CHOOSE a \in keep : \A b \in keep : b <= a
  IN  SubSeq(sorted, 1, k) \o <<e>> \o SubSeq(sorted, k + 1, Len(sorted))

RECURSIVE SortFrom(_, _, _)
SortFrom(entries, i, sorted) ==
  IF i > Len(entries) THEN sorted
  ELSE SortFrom(entries, i + 1, InsertDesc(sorted, entries[i]))

sortBySimilarity(entries) == SortFrom(entries, 1, <<>>)

(***************************************************************************)
(* Retrieval, POST /api/query lines 619-698 and VectorService.             *)
(* chunks and docs are the stores in insertion order.                      *)
(***************************************************************************)
UnknownDocument == "Unknown Document"

\* a variant of lines 621-624 and 652 without the placeholder: a chunk whose
\* document is gone has no name; C20 tells it from the code
documentNameOrNothing(docs, id) ==
  IF \E i \in 1..Len(docs) : docs[i].id = id
  THEN docs[CHOOSE i \in 1..Len(docs) : docs[i].id = id].originalName
  ELSE ""

\* documentMap.get(chunk.documentId) || 'Unknown Document'
documentName(docs, id) ==
  LET hits == {i \in 1..Len(docs) : docs[i].id = id}
  IN  IF hits = {} \/ docs[CHOOSE i \in hits : TRUE].originalName = ""
      THEN UnknownDocument
      ELSE docs[CHOOSE i \in hits : TRUE].originalName

definitionTriggers == {"what is", "define", "explain"}
definitionWords == {"is", "means", "refers to", "defined as", "answer:", "question:", "q:"}

\* lines 628-639: query words longer than 2 found in the chunk, with repeats
matchScore(chunkText, queryLower) ==
  LET words == QueryWords(queryLower)
  IN  Cardinality({i \in 1..Len(words) : includes(chunkText, words[i])})

\* lines 627-665: the score of one chunk, 0 when it is not kept
textScore(chunk, query) ==
  LET chunkText == toLowerCase(chunk.text)
      queryLower == toLowerCase(query)
      score == matchScore(chunkText, queryLower)
  IN  IF HasAny(queryLower, definitionTriggers)
      THEN IF score > 0 /\ HasAny(chunkText, definitionWords) THEN score + 2 ELSE 0
      ELSE score

Entry(chunk, sim, docs) ==
  [chunk |-> chunk, similarity |-> sim, documentName |-> documentName(docs, chunk.documentId)]

TextSearchTop == 10

\* lines 626-673
textSearch(chunks, docs, query) ==
  LET kept == SelectSeq([i \in 1..Len(chunks) |->
                           Entry(chunks[i], Tenths(textScore(chunks[i], query)), docs)],
                        LAMBDA e : e.similarity.score > 0)
      sorted == sortBySimilarity(kept)
  IN  SubSeq(sorted, 1, Min2(TextSearchTop, Len(sorted)))

\* part_002 lines 33-40: the similarity of one chunk.  A chunk without an
\* embedding is passed over (line 33); JSON.parse throws on an embedding that
\* is not JSON and cosineSimilarity on one of another length, and the catch
\* of lines 55-58 takes both.
chunkSimilarity(queryEmbedding, chunk) ==
  IF Missing(chunk.embedding) THEN [kind |-> "none"]
  ELSE IF ~Parses(chunk.embedding) THEN [kind |-> "throw"]
  ELSE cosineSimilarity(queryEmbedding, Parse(chunk.embedding))

\* part_002 lines 32-59: every chunk with its similarity
ScoredChunks(chunks, docs, queryEmbedding) ==
  [i \in 1..Len(chunks) |->
     Entry(chunks[i], chunkSimilarity(queryEmbedding, chunks[i]), docs)]

\* part_002 line 48: similarity >= threshold, for a comparison that returned
AtLeast(e, threshold) == e.similarity.kind = "cos" /\ SimGeq(e.similarity, threshold)

TopOf(sorted, topK) == SubSeq(sorted, 1, Min2(topK, Len(sorted)))

\* part_002 lines 48-54 and 72-74
TopSimilar(scored, topK, threshold) ==
  TopOf(sortBySimilarity(SelectSeq(scored, LAMBDA e : AtLeast(e, threshold))), topK)

\* the chunks before the first one whose comparison throws
BeforeFailure(chunks, queryEmbedding) ==
  SubSeq(chunks, 1,
         Cardinality({k \in 1..Len(chunks) :
                        \A j \in 1..k : chunkSimilarity(queryEmbedding, chunks[j]).kind # "throw"}))

\* a variant of part_002 lines 12-80 with the try around the loop, not in
\* it: the first comparison that throws ends the search; C13 tells it from
\* the code
searchUntilFailure(chunks, docs, queryEmbedding, topK, threshold) ==
  TopSimilar(ScoredChunks(BeforeFailure(chunks, queryEmbedding), docs, queryEmbedding),
             topK, threshold)

\* part_002 lines 12-80: a chunk whose vector cannot be compared is skipped
searchSimilarChunks(chunks, docs, queryEmbedding, topK, threshold) ==
  TopSimilar(ScoredChunks(chunks, docs, queryEmbedding), topK, threshold)

MinTextResults == 3
VectorTopK == 10
VectorThreshold == Tenths(1)
ContextSources == 8
PreviewLength == 500

\* the entries of found whose chunk is in none of the entries of have
NotAmong(found, have) ==
  SelectSeq(found, LAMBDA e : \A i \in 1..Len(have) : have[i].chunk # e.chunk)

\* stage 2 merged into stage 1: a chunk that stage 1 found is not added again
MergedWith(byText, byVector) ==
  IF Len(byText) < MinTextResults THEN byText \o NotAmong(byVector, byText) ELSE byText

\* a variant of lines 678-683 that leaves out of the vector results the
\* chunks the text search has found; C15 tells it from the code
similarChunksMerged(chunks, docs, query, queryEmbedding) ==
  sortBySimilarity(MergedWith(textSearch(chunks, docs, query),
                              searchSimilarChunks(chunks, docs, queryEmbedding,
                                                  VectorTopK, VectorThreshold)))

\* lines 626-683 and the sort of line 694, which sorts similarChunks in place
similarChunksOf(chunks, docs, query, queryEmbedding) ==
  LET byText == textSearch(chunks, docs, query)
      all == IF Len(byText) < MinTextResults
             THEN byText \o searchSimilarChunks(chunks, docs, queryEmbedding,
                                                VectorTopK, VectorThreshold)
             ELSE byText
  IN  sortBySimilarity(all)

NumeralOf(n) == <<"0", "1", "2", "3", "4", "5", "6", "7", "8", "9", "10">>[n + 1]

\* lines 695-698
contextOf(sortedChunks) ==
  LET top == SubSeq(sortedChunks, 1, Min2(ContextSources, Len(sortedChunks)))
  IN  join([i \in 1..Len(top) |-> "[Source " \o NumeralOf(i) \o "]: " \o top[i].chunk.text],
           "\n\n")

\* lines 737-745
sourcesOf(similarChunks) ==
  [i \in 1..Len(similarChunks) |->
     LET r == similarChunks[i]
     IN  [docName |-> r.documentName,
          chunkIndex |-> r.chunk.chunkIndex,
          text |-> substring0(r.chunk.text, PreviewLength)
                   \o (IF Len(r.chunk.text) > PreviewLength THEN "..." ELSE ""),
          similarity |-> Hundredths(r.similarity),
          relevance |-> Relevance(r.similarity)]]

\* lines 688 and 731
NoChunksAnswer(query) ==
  "I couldn't find any information about \"" \o query
    \o "\" in your uploaded documents. The information you're looking for may not be present in the current documents."
BlankAnswer(query) ==
  "I couldn't find any information about \"" \o query \o "\" in your uploaded documents."

(***************************************************************************)
(* The server: storage.ts.  MemStorage's methods contain no await, so a    *)
(* handler runs without interruption from one suspension to the next; the  *)
(* suspensions are the PDF extraction, the provider's network call, the    *)
(* 100 ms timer of generateEmbeddings and the unlink of cleanupFile.  Each *)
(* action below is one such uninterrupted run of one request.              *)
(***************************************************************************)
MaxUploads == 2
MaxQueries == 2
MaxDeletes == 2
\* the clients send at most this many requests in all
MaxRequests == 3

Uploads == 1..MaxUploads
Queries == 1..MaxQueries
Deletes == 1..MaxDeletes

NoVector == [dim |-> 0, at |-> <<>>]

\* chunksCount: document.chunksCount of the object createDocument returned,
\* which the response reports (line 582)
IdleUpload ==
  [pc |-> "idle", file |-> NoFile, documentId |-> 0, chunksCount |-> 0, textChunks |-> <<>>,
   embeddings |-> <<>>, replies |-> <<>>, status |-> 0]

IdleQuery ==
  [pc |-> "idle", query |-> "", embedding |-> NoVector, reply |-> "", found |-> 0,
   context |-> "", extracted |-> FALSE, status |-> 0, answer |-> "", sources |-> <<>>]

\* during: the queries that were waiting for the provider when the request
\* was served
IdleDelete == [pc |-> "idle", id |-> 0, status |-> 0, during |-> {}]

\* the queries suspended at line 612, in the provider's call
InFlight == {q \in Queries : queryReq[q].pc = "provider"}

IdleLab == [machine |-> "server"]

\* the requests received so far
Received ==
  Cardinality({u \in Uploads : uploadReq[u].pc # "idle"})
    + Cardinality({q \in Queries : queryReq[q].pc # "idle"})
    + Cardinality({d \in Deletes : deleteReq[d].pc # "idle"})

Init ==
  /\ openai \in BOOLEAN
  /\ documents = <<>>
  /\ documentChunks = <<>>
  /\ queries = <<>>
  /\ nextId = 1
  /\ uploadReq = [u \in Uploads |-> IdleUpload]
  /\ queryReq = [q \in Queries |-> IdleQuery]
  /\ deleteReq = [d \in Deletes |-> IdleDelete]
  /\ embedCalls = 0
  /\ providerCalls = 0
  /\ providerFailures = 0
  /\ lab = IdleLab

(***************************************************************************)
(* MemStorage, lines 22-106                                                *)
(***************************************************************************)
\* lines 33-43
createDocument(docs, id, insertDocument) ==
  docs \o <<[id |-> id, filename |-> insertDocument.filename,
             originalName |-> insertDocument.originalName,
             chunksCount |-> insertDocument.chunksCount]>>

\* a variant of lines 45-47 that finds a document under every id; C18 tells
\* it from the code
getDocumentAlways(docs, id) ==
  IF \E i \in 1..Len(docs) : docs[i].id = id
  THEN CHOOSE i \in 1..Len(docs) : docs[i].id = id
  ELSE 1

\* lines 45-47: the position of the document, 0 when there is none
getDocument(docs, id) ==
  IF \E i \in 1..Len(docs) : docs[i].id = id
  THEN CHOOSE i \in 1..Len(docs) : docs[i].id = id
  ELSE 0

\* lines 81-87
deleteDocumentChunks(chunks, documentId) ==
  SelectSeq(chunks, LAMBDA c : c.documentId # documentId)

\* a variant of lines 55-58 without the cascade of line 57; C2 tells it
\* from the code
deleteDocumentOnly(docs, chunks, id) ==
  [documents |-> SelectSeq(docs, LAMBDA d : d.id # id), documentChunks |-> chunks]

\* lines 55-58: the two stores after the call
deleteDocument(docs, chunks, id) ==
  [documents |-> SelectSeq(docs, LAMBDA d : d.id # id),
   documentChunks |-> deleteDocumentChunks(chunks, id)]

\* lines 60-69
createDocumentChunk(chunks, insertChunk) ==
  chunks \o <<[documentId |-> insertChunk.documentId,
               chunkIndex |-> insertChunk.chunkIndex,
               text |-> insertChunk.text,
               embedding |-> insertChunk.embedding]>>

\* a variant of lines 89-99 that stores nothing; C3 tells it from the code
forgetQuery(log, insertQuery) == log

\* lines 89-99
createQuery(log, insertQuery) ==
  log \o <<[query |-> insertQuery.query, response |-> insertQuery.response,
            sources |-> insertQuery.sources]>>

(***************************************************************************)
(* POST /api/upload, lines 540-597                                         *)
(***************************************************************************)
\* a variant of lines 565-572 that stores the first embedding with every
\* chunk; C22 tells it from the code
RECURSIVE storeChunksFirstEmbedding(_, _, _, _, _)
storeChunksFirstEmbedding(chunks, documentId, textChunks, embeddings, i) ==
  IF i > Len(textChunks) THEN chunks
  ELSE storeChunksFirstEmbedding(
         createDocumentChunk(chunks, [documentId |-> documentId,
                                      chunkIndex |-> i - 1,
                                      text |-> textChunks[i],
                                      embedding |-> Stringify(embeddings[1])]),
         documentId, textChunks, embeddings, i + 1)

\* lines 565-572: one createDocumentChunk per text chunk, in order
RECURSIVE storeChunks(_, _, _, _, _)
storeChunks(chunks, documentId, textChunks, embeddings, i) ==
  IF i > Len(textChunks) THEN chunks
  ELSE storeChunks(createDocumentChunk(chunks, [documentId |-> documentId,
                                                chunkIndex |-> i - 1,
                                                text |-> textChunks[i],
                                                embedding |-> Stringify(embeddings[i])]),
                   documentId, textChunks, embeddings, i + 1)

\* generateEmbeddings, lines 93-106, from the top of its loop, and what
\* follows it in the handler up to the next suspension.  req is the request
\* as the handler has it now.
UploadContinue(u, req) ==
  IF Len(req.embeddings) = Len(req.textChunks)
  THEN /\ documentChunks' = storeChunks(documentChunks, req.documentId, req.textChunks,
                                         req.embeddings, 1)
       /\ uploadReq' = [uploadReq EXCEPT ![u] = [req EXCEPT !.pc = "cleanup"]]
       /\ UNCHANGED calls
  ELSE LET text == req.textChunks[Len(req.embeddings) + 1]
       IN  /\ embedCalls' = embedCalls + 1
           /\ UNCHANGED <<documentChunks, providerFailures>>
           /\ IF UsesProvider(openai, providerFailures)
              THEN /\ providerCalls' = providerCalls + 1
                   /\ uploadReq' = [uploadReq EXCEPT ![u] = [req EXCEPT !.pc = "provider"]]
              ELSE /\ UNCHANGED providerCalls
                   /\ uploadReq' = [uploadReq EXCEPT ![u] =
                        [req EXCEPT !.pc = "delay",
                                    !.embeddings = @ \o <<generateEmbedding(text, NotAsked)>>,
                                    !.replies = @ \o <<NotAsked.kind>>]]

\* lines 541-550: the request arrives; without a file it is answered 400
UploadStart(u) ==
  /\ uploadReq[u].pc = "idle"
  /\ u > 1 => uploadReq[u - 1].pc # "idle"
  /\ Received < MaxRequests
  /\ \E file \in Files :
       uploadReq' = [uploadReq EXCEPT ![u] =
         IF file.present THEN [@ EXCEPT !.pc = "extracting", !.file = file]
         ELSE [@ EXCEPT !.pc = "done", !.file = file, !.status = 400]]
  /\ UNCHANGED <<openai, store, nextId, queryReq, deleteReq, calls, lab>>

\* a variant of pdfService.ts lines 5-16 that swallows the error and returns
\* no text; C17 tells it from the code
extractTextOrNothing(file) == [kind |-> "return", text |-> file.text]

\* pdfService.ts lines 5-16: the text of the file, or the Error of line 14
\* when the file cannot be read or parsed
extractTextFromPDF(file) ==
  IF file.readable THEN [kind |-> "return", text |-> file.text]
  ELSE [kind |-> "throw", text |-> ""]

\* lines 550-563: extractTextFromPDF has settled
UploadExtracted(u) ==
  /\ uploadReq[u].pc = "extracting"
  /\ IF extractTextFromPDF(uploadReq[u].file).kind = "throw"
     THEN /\ uploadReq' = [uploadReq EXCEPT ![u].pc = "failing"]
          /\ UNCHANGED <<documents, documentChunks, nextId, calls>>
     ELSE LET file == uploadReq[u].file
              textChunks == textChunksOf[file]
          IN  /\ documents' = createDocument(documents, nextId,
                                [filename |-> file.originalName,
                                 originalName |-> file.originalName,
                                 chunksCount |-> Len(textChunks)])
              /\ nextId' = nextId + 1
              /\ UploadContinue(u, [uploadReq[u] EXCEPT
                                       !.documentId = documents'[Len(documents')].id,
                                       !.chunksCount = documents'[Len(documents')].chunksCount,
                                       !.textChunks = textChunks])
  /\ UNCHANGED <<openai, queries, queryReq, deleteReq, lab>>

\* embeddingService.ts lines 49-90: the provider has answered or thrown
UploadProviderReply(u) ==
  /\ uploadReq[u].pc = "provider"
  /\ \E reply \in ProviderReplies :
       LET req == uploadReq[u]
           text == req.textChunks[Len(req.embeddings) + 1]
       IN  /\ uploadReq' = [uploadReq EXCEPT ![u] =
                [req EXCEPT !.pc = "delay",
                            !.embeddings = @ \o <<generateEmbedding(text, reply)>>,
                            !.replies = @ \o <<reply.kind>>]]
           /\ providerFailures' = providerFailures + (IF reply.kind = "fail" THEN 1 ELSE 0)
  /\ UNCHANGED <<openai, store, nextId, queryReq, deleteReq, embedCalls, providerCalls, lab>>

\* embeddingService.ts line 102: the 100 ms timer has fired
UploadDelayDone(u) ==
  /\ uploadReq[u].pc = "delay"
  /\ UploadContinue(u, uploadReq[u])
  /\ UNCHANGED <<openai, documents, queries, nextId, queryReq, deleteReq, lab>>

\* lines 575-584 and 589-595: cleanupFile has settled, the response is sent
UploadCleanedUp(u) ==
  /\ uploadReq[u].pc \in {"cleanup", "failing"}
  /\ uploadReq' = [uploadReq EXCEPT ![u] =
       [@ EXCEPT !.pc = "done", !.status = IF uploadReq[u].pc = "cleanup" THEN 200 ELSE 500]]
  /\ UNCHANGED <<openai, store, nextId, queryReq, deleteReq, calls, lab>>

(***************************************************************************)
(* POST /api/query, lines 600-764                                          *)
(***************************************************************************)
\* lines 730-757: the answer is checked, logged and sent.  seen is the
\* request with what the handler has found so far.
QueryRespond(q, seen, result, sources) ==
  IF result.kind = "throw"
  THEN /\ queryReq' = [queryReq EXCEPT ![q] = [seen EXCEPT !.status = 500]]
       /\ UNCHANGED queries
  ELSE IF trim(result.answer) = ""
  THEN /\ queryReq' = [queryReq EXCEPT ![q] =
            [seen EXCEPT !.status = 200, !.answer = BlankAnswer(seen.query)]]
       /\ UNCHANGED queries
  ELSE /\ queries' = createQuery(queries, [query |-> seen.query,
                                           response |-> result.answer,
                                           sources |-> Stringify(sources)])
       /\ queryReq' = [queryReq EXCEPT ![q] =
            [seen EXCEPT !.status = 200, !.extracted = TRUE,
                         !.answer = result.answer, !.sources = sources]]

\* lines 696-729: the context is built and handed to the extractor
QueryExtract(q, seen, similarChunks, context) ==
  QueryRespond(q, [seen EXCEPT !.context = context],
               extractInformationFromContext(context, seen.query),
               sourcesOf(similarChunks))

\* lines 684-695: without a chunk the handler answers at once
QueryRetrieved(q, req, similarChunks) ==
  IF Len(similarChunks) = 0
  THEN /\ queryReq' = [queryReq EXCEPT ![q] =
            [req EXCEPT !.pc = "done", !.found = 0, !.status = 200,
                        !.answer = NoChunksAnswer(req.query)]]
       /\ UNCHANGED queries
  ELSE QueryExtract(q, [req EXCEPT !.pc = "done", !.found = Len(similarChunks)],
                    similarChunks, contextOf(similarChunks))

\* lines 619-757: from the query's embedding to the response, which runs
\* without suspension.  req is the request as the handler has it now.
QueryFinish(q, req) ==
  QueryRetrieved(q, req,
                 similarChunksOf(documentChunks, documents, req.query, req.embedding))

\* lines 601-612: the request arrives
QueryStart(q) ==
  /\ queryReq[q].pc = "idle"
  /\ q > 1 => queryReq[q - 1].pc # "idle"
  /\ Received < MaxRequests
  /\ \E text \in QueryTexts :
       LET req == [queryReq[q] EXCEPT !.query = text]
       IN  IF trim(text) = ""
           THEN /\ queryReq' = [queryReq EXCEPT ![q] = [req EXCEPT !.pc = "done", !.status = 400]]
                /\ UNCHANGED <<queries, calls>>
           ELSE /\ embedCalls' = embedCalls + 1
                /\ UNCHANGED providerFailures
                /\ IF UsesProvider(openai, providerFailures)
                   THEN /\ providerCalls' = providerCalls + 1
                        /\ queryReq' = [queryReq EXCEPT ![q] = [req EXCEPT !.pc = "provider"]]
                        /\ UNCHANGED queries
                   ELSE /\ UNCHANGED providerCalls
                        /\ QueryFinish(q, [req EXCEPT !.reply = NotAsked.kind,
                                                      !.embedding = generateEmbedding(text, NotAsked)])
  /\ UNCHANGED <<openai, documents, documentChunks, nextId, uploadReq, deleteReq, lab>>

\* embeddingService.ts lines 49-90, then the rest of the handler
QueryProviderReply(q) ==
  /\ queryReq[q].pc = "provider"
  /\ \E reply \in ProviderReplies :
       /\ providerFailures' = providerFailures + (IF reply.kind = "fail" THEN 1 ELSE 0)
       /\ QueryFinish(q, [queryReq[q] EXCEPT
                            !.reply = reply.kind,
                            !.embedding = generateEmbedding(queryReq[q].query, reply)])
  /\ UNCHANGED <<openai, documents, documentChunks, nextId, uploadReq, deleteReq,
                 embedCalls, providerCalls, lab>>

(***************************************************************************)
(* DELETE /api/documents/:id, lines 787-804: no suspension                 *)
(***************************************************************************)
DocumentIds == 1..MaxUploads

DeleteRequest(d) ==
  /\ deleteReq[d].pc = "idle"
  /\ d > 1 => deleteReq[d - 1].pc # "idle"
  /\ Received < MaxRequests
  /\ \E id \in DocumentIds :
       IF getDocument(documents, id) = 0
       THEN /\ deleteReq' = [deleteReq EXCEPT ![d] = [pc |-> "done", id |-> id, status |-> 404,
                                                     during |-> InFlight]]
            /\ UNCHANGED <<documents, documentChunks>>
       ELSE /\ documents' = deleteDocument(documents, documentChunks, id).documents
            /\ documentChunks' = deleteDocument(documents, documentChunks, id).documentChunks
            /\ deleteReq' = [deleteReq EXCEPT ![d] = [pc |-> "done", id |-> id, status |-> 200,
                                                     during |-> InFlight]]
  /\ UNCHANGED <<openai, queries, nextId, uploadReq, queryReq, calls, lab>>

Next ==
  \/ \E u \in Uploads : UploadStart(u)
  \/ \E u \in Uploads : UploadExtracted(u)
  \/ \E u \in Uploads : UploadProviderReply(u)
  \/ \E u \in Uploads : UploadDelayDone(u)
  \/ \E u \in Uploads : UploadCleanedUp(u)
  \/ \E q \in Queries : QueryStart(q)
  \/ \E q \in Queries : QueryProviderReply(q)
  \/ \E d \in Deletes : DeleteRequest(d)

Spec == Init /\ [][Next]_vars

(***************************************************************************)
(* The extractor on its own: extractInformationFromContext is applied to   *)
(* a context, built the way lines 695-698 build it, and a query.           *)
(***************************************************************************)
ResumeText ==
  "Shreyas Chougule\nEducation\nXYZ Institute of Technology\nB.Tech in Computer Science, 2023"
ReactText ==
  "Q: What is React? A: React is a JavaScript library for building user interfaces."
SkillsText == "Skills: Java, C++, SQL. Projects: Tournament Manager, Accident Detector."
NotesText == "It is used with HTML and CSS on most pages"

LabChunkTexts == {ResumeText, ReactText, SkillsText, NotesText}

\* the most chunks a context of this machine is built from
MaxSources == 2

RECURSIVE ChunkLists(_)
ChunkLists(n) ==
  IF n = 0 THEN {<<>>}
  ELSE LET shorter == ChunkLists(n - 1)
       IN  shorter \cup {Append(l, t) : l \in {x \in shorter : Len(x) = n - 1},
                                        t \in LabChunkTexts}

LabContexts ==
  {contextOf([i \in 1..Len(l) |-> [chunk |-> [text |-> l[i]]]]) :
     l \in {x \in ChunkLists(MaxSources) : Len(x) > 0}}

\* two more chunks, each a context of its own: one that names Java inside a
\* longer word only, and one whose "means" sentence holds no definition
\* keyword
BrowserText == "What is Java? We write JavaScript code daily."
CoffeeText == "Java means the coffee we drank at Java cafe on Monday afternoon."

DefinitionContexts ==
  {contextOf(<<[chunk |-> [text |-> t]]>>) : t \in {BrowserText, CoffeeText}}

\* a chunk that names a project and describes it
ProjectText ==
  "Tournament Manager: a web application that schedules matches and tracks the scores of every team."

ProjectContexts == {contextOf(<<[chunk |-> [text |-> ProjectText]]>>)}

InstitutionQueries ==
  {"What is the college name?", "college name?", "Which university did he attend?",
   "name of the institute"}

LabQueries ==
  InstitutionQueries \cup
  {"What is React?", "What is Docker?", "define kubernetes", "explain htm",
   "Explain it", "explain constructor", "what is c++", "What issues are in the projects?",
   "Define: ?", "skills", "What are the projects?", "when did he graduate",
   "zebra", "java", "to be", "What is Java?", "explain java",
   "define js", "what is it",
   "college project", "name of the person at the institute", "work skills",
   "describe the project", "explain the tournament project"}

NoResult == [kind |-> "none", site |-> "", pat |-> 0, answer |-> ""]

InitExtract ==
  /\ openai = FALSE
  /\ documents = <<>>
  /\ documentChunks = <<>>
  /\ queries = <<>>
  /\ nextId = 1
  /\ uploadReq = [u \in Uploads |-> IdleUpload]
  /\ queryReq = [q \in Queries |-> IdleQuery]
  /\ deleteReq = [d \in Deletes |-> IdleDelete]
  /\ embedCalls = 0
  /\ providerCalls = 0
  /\ providerFailures = 0
  /\ lab \in {[machine |-> "extract", phase |-> "asked", context |-> c, query |-> q,
               result |-> NoResult] :
                 c \in LabContexts \cup DefinitionContexts \cup ProjectContexts \cup {""},
                 q \in LabQueries}

server == <<openai, documents, documentChunks, queries, nextId, uploadReq, queryReq,
            deleteReq, embedCalls, providerCalls, providerFailures>>

\* line 725: const answer = extractInformationFromContext(context, query)
Extract ==
  /\ lab.machine = "extract"
  /\ lab.phase = "asked"
  /\ lab' = [lab EXCEPT !.phase = "answered",
                        !.result = extractInformationFromContext(lab.context, lab.query)]
  /\ UNCHANGED server

NextExtract == Extract

ExtractSpec == InitExtract /\ [][NextExtract]_vars

ExtractAnswered == lab.machine = "extract" /\ lab.phase = "answered"


(***************************************************************************)
(* The chunker on its own: splitTextIntoChunks is applied to a text put    *)
(* together from segments, with the default window or a short one.         *)
(***************************************************************************)
LabSegments ==
  {"", " ", "\n\n", "Ann Lee, 27. ", "Education MIT, B.Tech 2023. ",
   "Skills: Java, SQL. ", "Q1: What is X? X is Y. ", "What is React? A library. "}

\* the most segments a text of this machine is put together from
MaxSegments == 3

RECURSIVE LabTexts(_)
LabTexts(n) ==
  IF n = 0 THEN {""}
  ELSE {t \o seg : t \in LabTexts(n - 1), seg \in LabSegments}

ShortChunkSize == 30
ShortOverlap == 6

\* <<chunkSize, overlap>>: the defaults of line 18 and a window short enough
\* for the texts above to need several
LabWindows == {<<DefaultChunkSize, DefaultOverlap>>, <<ShortChunkSize, ShortOverlap>>}

InitChunk ==
  /\ openai = FALSE
  /\ documents = <<>>
  /\ documentChunks = <<>>
  /\ queries = <<>>
  /\ nextId = 1
  /\ uploadReq = [u \in Uploads |-> IdleUpload]
  /\ queryReq = [q \in Queries |-> IdleQuery]
  /\ deleteReq = [d \in Deletes |-> IdleDelete]
  /\ embedCalls = 0
  /\ providerCalls = 0
  /\ providerFailures = 0
  /\ lab \in {[machine |-> "chunk", phase |-> "given", text |-> t, chunkSize |-> w[1],
               overlap |-> w[2], chunks |-> <<>>] :
                t \in LabTexts(MaxSegments), w \in LabWindows}

\* line 553: const textChunks = PDFService.splitTextIntoChunks(text)
Chunk ==
  /\ lab.machine = "chunk"
  /\ lab.phase = "given"
  /\ lab' = [lab EXCEPT !.phase = "split",
                        !.chunks = splitTextIntoChunks(lab.text, lab.chunkSize, lab.overlap)]
  /\ UNCHANGED server

NextChunk == Chunk

ChunkSpec == InitChunk /\ [][NextChunk]_vars

ChunksMade == lab.machine = "chunk" /\ lab.phase = "split"

(***************************************************************************)
(* The loop of splitSectionIntoChunks on its own: one pass of the while    *)
(* loop of lines 150-174 per step, on a section and a window size.         *)
(***************************************************************************)
WindowSegments ==
  {"Ann Lee, 27, Pune. ", "Education MIT and B Tech in 2023 ", "Skills: Java, SQL, C. ",
   "What is X?\nX is Y, and Z. "}

\* the most segments a section of this machine is put together from
MaxPieces == 3

RECURSIVE Sections(_)
Sections(n) ==
  IF n = 0 THEN {""}
  ELSE Sections(n - 1) \cup {t \o seg : t \in Sections(n - 1), seg \in WindowSegments}

RECURSIVE Repeated(_, _)
Repeated(seg, n) == IF n = 0 THEN "" ELSE seg \o Repeated(seg, n - 1)

\* how often a segment is repeated to make a section longer than the
\* default window
LongRepeats == 100

LongSections == {Repeated(seg, LongRepeats) : seg \in WindowSegments}

\* <<chunkSize, overlap>>: the defaults of line 18 scaled down by 100 and by
\* 50, with the same ratio
ShortWindows == {<<DefaultChunkSize \div 100, DefaultOverlap \div 100>>,
                 <<DefaultChunkSize \div 50, DefaultOverlap \div 50>>}

\* from, end, breakPoint, chunk: const end, const breakPoint and let chunk of
\* the last pass, and the start it began with
InitWindow ==
  /\ openai = FALSE
  /\ documents = <<>>
  /\ documentChunks = <<>>
  /\ queries = <<>>
  /\ nextId = 1
  /\ uploadReq = [u \in Uploads |-> IdleUpload]
  /\ queryReq = [q \in Queries |-> IdleQuery]
  /\ deleteReq = [d \in Deletes |-> IdleDelete]
  /\ embedCalls = 0
  /\ providerCalls = 0
  /\ providerFailures = 0
  /\ lab \in {[machine |-> "window", section |-> trim(t), chunkSize |-> w[1], overlap |-> w[2],
               start |-> 0, passes |-> 0, from |-> 0, end |-> 0, breakPoint |-> -1,
               chunk |-> "", chunks |-> <<>>] :
                t \in Sections(MaxPieces), w \in ShortWindows \cup {<<ShortChunkSize, ShortOverlap>>}}
           \cup
           {[machine |-> "window", section |-> trim(t), chunkSize |-> DefaultChunkSize,
               overlap |-> DefaultOverlap,
               start |-> 0, passes |-> 0, from |-> 0, end |-> 0, breakPoint |-> -1,
               chunk |-> "", chunks |-> <<>>] : t \in LongSections}

\* lines 171-173: the chunk is pushed unless it is blank
PushChunk(chunks, chunk) == IF trim(chunk) # "" THEN Append(chunks, trim(chunk)) ELSE chunks

\* lines 151-173: one pass of the while loop
WindowPass ==
  /\ lab.machine = "window"
  /\ lab.start < Len(lab.section)
  /\ \E end \in {Min2(lab.start + lab.chunkSize, Len(lab.section))} :
       \E breakPoint \in {IF end < Len(lab.section)
                             THEN BreakPoint(slice(lab.section, lab.start, end)) ELSE -1} :
         \E chunk \in {ChunkOf(lab.section, lab.chunkSize, lab.start, end, breakPoint)} :
           lab' = [lab EXCEPT
             !.passes = @ + 1,
             !.from = lab.start,
             !.end = end,
             !.breakPoint = breakPoint,
             !.chunk = chunk,
             !.start = NextStart(lab.section, lab.chunkSize, lab.overlap, lab.start, end,
                                 breakPoint),
             !.chunks = PushChunk(@, chunk)]
  /\ UNCHANGED server

NextWindow == WindowPass

WindowSpec == InitWindow /\ [][NextWindow]_vars

\* the loop is not starved: a pass that can run does run
WindowLiveSpec == WindowSpec /\ WF_vars(WindowPass)

WindowPassed == lab.machine = "window" /\ lab.passes > 0

(***************************************************************************)
(* The statistics on their own: the stores of MemStorage under uploads,    *)
(* deletions and recorded queries, and what GET /api/stats reports of      *)
(* them.  Every stored item carries the clock reading of its creation.     *)
(***************************************************************************)
\* storage.ts line 104: getRecentQueries keeps this many records
RecentQueries == 10

\* the most query records, the most uploads and the last clock reading of
\* this machine
MaxRecords == 11
MaxStatsUploads == 2
MaxNow == 1

\* the place of item i of a list after Array.sort with (a, b) => b.at - a.at:
\* newer items first, items of one reading in their order
PlaceByNewest(at, i) ==
  1 + Cardinality({j \in 1..Len(at) : at[j] > at[i]})
    + Cardinality({j \in 1..(i - 1) : at[j] = at[i]})

sortByNewest(items, at) ==
  [p \in 1..Len(items) |-> items[CHOOSE i \in 1..Len(items) : PlaceByNewest(at, i) = p]]

\* lines 49-53
getAllDocuments(docs, uploadedAt) ==
  sortByNewest(docs, [i \in 1..Len(docs) |-> uploadedAt[docs[i].id]])

\* lines 101-105
getRecentQueries(log, createdAt) ==
  SubSeq(sortByNewest(log, createdAt), 1, Min2(RecentQueries, Len(log)))

NoStats == [totalDocuments |-> -1, totalQueries |-> -1]

InitStats ==
  /\ openai = FALSE
  /\ documents = <<>>
  /\ documentChunks = <<>>
  /\ queries = <<>>
  /\ nextId = 1
  /\ uploadReq = [u \in Uploads |-> IdleUpload]
  /\ queryReq = [q \in Queries |-> IdleQuery]
  /\ deleteReq = [d \in Deletes |-> IdleDelete]
  /\ embedCalls = 0
  /\ providerCalls = 0
  /\ providerFailures = 0
  /\ lab = [machine |-> "stats", last |-> "start", now |-> 0, nextId |-> 1,
            documents |-> <<>>, uploadedAt |-> [id \in 1..MaxStatsUploads |-> 0],
            queries |-> <<>>, createdAt |-> <<>>, status |-> 0, stats |-> NoStats]

\* time passes between two requests
StatsTick ==
  /\ lab.machine = "stats"
  /\ lab.now < MaxNow
  /\ lab' = [lab EXCEPT !.now = @ + 1]
  /\ UNCHANGED server

\* an upload that succeeds, lines 556-561 with createDocument, lines 33-43
StatsUpload ==
  /\ lab.machine = "stats"
  /\ lab.nextId <= MaxStatsUploads
  /\ \E chunksCount \in 1..2 :
       lab' = [lab EXCEPT !.last = "upload", !.status = 200, !.stats = NoStats,
                          !.nextId = @ + 1,
                          !.uploadedAt[lab.nextId] = lab.now,
                          !.documents = createDocument(@, lab.nextId,
                                          [filename |-> "cv.pdf", originalName |-> "cv.pdf",
                                           chunksCount |-> chunksCount])]
  /\ UNCHANGED server

\* DELETE /api/documents/:id, lines 787-804
StatsDelete ==
  /\ lab.machine = "stats"
  /\ \E id \in 1..MaxStatsUploads :
       IF getDocument(lab.documents, id) = 0
       THEN lab' = [lab EXCEPT !.last = "delete", !.status = 404, !.stats = NoStats]
       ELSE lab' = [lab EXCEPT !.last = "delete", !.status = 200, !.stats = NoStats,
                               !.documents = deleteDocument(@, <<>>, id).documents]
  /\ UNCHANGED server

\* a query that is answered, lines 748-752 with createQuery, lines 89-99
StatsQuery ==
  /\ lab.machine = "stats"
  /\ Len(lab.queries) < MaxRecords
  /\ lab' = [lab EXCEPT !.last = "query", !.status = 200, !.stats = NoStats,
                        !.queries = createQuery(@, [query |-> "skills",
                                                    response |-> "Java, C++, SQL",
                                                    sources |-> <<>>]),
                        !.createdAt = Append(@, lab.now)]
  /\ UNCHANGED server

\* GET /api/stats, lines 807-815
StatsGet ==
  /\ lab.machine = "stats"
  /\ lab' = [lab EXCEPT !.last = "stats", !.status = 200,
                        !.stats = [totalDocuments |->
                                     Len(getAllDocuments(lab.documents, lab.uploadedAt)),
                                   totalQueries |->
                                     Len(getRecentQueries(lab.queries, lab.createdAt))]]
  /\ UNCHANGED server

NextStats == StatsTick \/ StatsUpload \/ StatsDelete \/ StatsQuery \/ StatsGet

StatsSpec == InitStats /\ [][NextStats]_vars

StatsReported == lab.machine = "stats" /\ lab.last = "stats"

(***************************************************************************)
(* The embedder on its own: the fallback path of generateEmbedding is      *)
(* taken twice for a text, because no provider is configured (line 11) or  *)
(* because the provider's call threw (line 56).                            *)
(***************************************************************************)
EmbedSegments == LabSegments \cup {"ab", "No"}

\* the most segments a text of this machine is put together from
MaxParts == 2

RECURSIVE EmbedTexts(_)
EmbedTexts(n) ==
  IF n = 0 THEN {""}
  ELSE {t \o seg : t \in EmbedTexts(n - 1), seg \in EmbedSegments}

InitEmbed ==
  /\ openai \in BOOLEAN
  /\ documents = <<>>
  /\ documentChunks = <<>>
  /\ queries = <<>>
  /\ nextId = 1
  /\ uploadReq = [u \in Uploads |-> IdleUpload]
  /\ queryReq = [q \in Queries |-> IdleQuery]
  /\ deleteReq = [d \in Deletes |-> IdleDelete]
  /\ embedCalls = 0
  /\ providerCalls = 0
  /\ providerFailures = 0
  /\ lab \in {[machine |-> "embed", phase |-> "given", text |-> t,
               first |-> NoVector, second |-> NoVector] : t \in EmbedTexts(MaxParts)}

\* what the provider does in a call of this machine: it is not asked when
\* none is configured, and its request throws when one is
FallbackReply == IF UsesProvider(openai, providerFailures) THEN Failed ELSE NotAsked

\* embeddingService.ts lines 9-91: the first call for the text
EmbedFirst ==
  /\ lab.machine = "embed"
  /\ lab.phase = "given"
  /\ lab' = [lab EXCEPT !.phase = "once",
                        !.first = generateEmbedding(lab.text, FallbackReply)]
  /\ UNCHANGED server

\* a second call for the same text
EmbedAgain ==
  /\ lab.machine = "embed"
  /\ lab.phase = "once"
  /\ lab' = [lab EXCEPT !.phase = "twice",
                        !.second = generateEmbedding(lab.text, FallbackReply)]
  /\ UNCHANGED server

NextEmbed == EmbedFirst \/ EmbedAgain

EmbedSpec == InitEmbed /\ [][NextEmbed]_vars

EmbeddedTwice == lab.machine = "embed" /\ lab.phase = "twice"

(***************************************************************************)
(* The vector search on its own: VectorService.searchSimilarChunks is      *)
(* applied to a store of chunks whose embeddings are of the fallback's     *)
(* length, of the provider's length, no JSON text, or missing.             *)
(***************************************************************************)
\* a vector of the provider's length at a right angle to ProviderChoices
FarVector == [dim |-> ProviderDimension, at |-> (2 :> 1)]

StoredEmbeddings ==
  { Stringify(generateEmbedding("skills", NotAsked)),
    Stringify(generateEmbedding("Skills: .NET", NotAsked)),
    Stringify(FarVector),
    Malformed,
    NoEmbedding }
    \cup {Stringify(v) : v \in ProviderChoices}

QueryEmbeddings == {generateEmbedding("skills", NotAsked)} \cup ProviderChoices

\* the most chunks the store of this machine holds
MaxStored == 3

RECURSIVE EmbeddingLists(_)
EmbeddingLists(n) ==
  IF n = 0 THEN {<<>>}
  ELSE LET shorter == EmbeddingLists(n - 1)
       IN  shorter \cup {Append(l, e) : l \in {x \in shorter : Len(x) = n - 1},
                                        e \in StoredEmbeddings}

LabDocuments ==
  <<[id |-> 1, filename |-> "cv.pdf", originalName |-> "cv.pdf", chunksCount |-> MaxStored]>>

LabChunks(l) ==
  [i \in 1..Len(l) |->
     [documentId |-> 1, chunkIndex |-> i - 1, text |-> "skills", embedding |-> l[i]]]

InitVector ==
  /\ openai = FALSE
  /\ documents = <<>>
  /\ documentChunks = <<>>
  /\ queries = <<>>
  /\ nextId = 1
  /\ uploadReq = [u \in Uploads |-> IdleUpload]
  /\ queryReq = [q \in Queries |-> IdleQuery]
  /\ deleteReq = [d \in Deletes |-> IdleDelete]
  /\ embedCalls = 0
  /\ providerCalls = 0
  /\ providerFailures = 0
  /\ lab \in {[machine |-> "vector", phase |-> "stored", chunks |-> LabChunks(l),
               queryEmbedding |-> v, result |-> <<>>] :
                l \in EmbeddingLists(MaxStored), v \in QueryEmbeddings}

\* storage.ts line 680: VectorService.searchSimilarChunks(queryEmbedding, 10, 0.1)
Search ==
  /\ lab.machine = "vector"
  /\ lab.phase = "stored"
  /\ lab' = [lab EXCEPT !.phase = "searched",
                        !.result = searchSimilarChunks(lab.chunks, LabDocuments,
                                                       lab.queryEmbedding, VectorTopK,
                                                       VectorThreshold)]
  /\ UNCHANGED server

NextVector == Search

VectorSpec == InitVector /\ [][NextVector]_vars

Searched == lab.machine = "vector" /\ lab.phase = "searched"

(***************************************************************************)
(* The retrieval on its own: the two stages of POST /api/query and the     *)
(* sources it answers with, for a store of chunks and a query.             *)
(***************************************************************************)
RepeatedQuery == "java java java java java java java java java java java"
LongDefinitionQuery ==
  "what is react react javascript library for building user interfaces"

RetrievalQueries ==
  {"skills", "java", "What is React?", "react library", "Tournament Manager projects",
   "explain html", RepeatedQuery, LongDefinitionQuery}

\* the most chunks the store of this machine holds
MaxChunks == 2

\* the chunks of a store larger than one context: each has its own text
FullStore == 9

FullTexts == [i \in 1..FullStore |-> "Note " \o NumeralOf(i) \o ". " \o SkillsText]

StoredChunks(l) ==
  [i \in 1..Len(l) |->
     [documentId |-> 1, chunkIndex |-> i - 1, text |-> l[i],
      embedding |-> Stringify(generateEmbedding(l[i], NotAsked))]]

InitRetrieve ==
  /\ openai = FALSE
  /\ documents = <<>>
  /\ documentChunks = <<>>
  /\ queries = <<>>
  /\ nextId = 1
  /\ uploadReq = [u \in Uploads |-> IdleUpload]
  /\ queryReq = [q \in Queries |-> IdleQuery]
  /\ deleteReq = [d \in Deletes |-> IdleDelete]
  /\ embedCalls = 0
  /\ providerCalls = 0
  /\ providerFailures = 0
  /\ lab \in {[machine |-> "retrieve", phase |-> "asked", texts |-> l, query |-> q,
               context |-> "", sources |-> <<>>] :
                l \in ChunkLists(MaxChunks) \cup {FullTexts}, q \in RetrievalQueries}

\* storage.ts lines 612-694 and 737-745
Retrieve ==
  /\ lab.machine = "retrieve"
  /\ lab.phase = "asked"
  /\ \E similarChunks \in {similarChunksOf(StoredChunks(lab.texts), LabDocuments, lab.query,
                                            generateEmbedding(lab.query, NotAsked))} :
       lab' = [lab EXCEPT !.phase = "answered",
                          !.context = contextOf(similarChunks),
                          !.sources = sourcesOf(similarChunks)]
  /\ UNCHANGED server

NextRetrieve == Retrieve

RetrieveSpec == InitRetrieve /\ [][NextRetrieve]_vars

Retrieved == lab.machine = "retrieve" /\ lab.phase = "answered"

(***************************************************************************)
(* Properties of the chunker                                               *)
(***************************************************************************)
EveryChunkNonBlank == \A i \in 1..Len(lab.chunks) : trim(lab.chunks[i].text) # ""

LeftToRight ==
  \A i \in 1..(Len(lab.chunks) - 1) : lab.chunks[i].pos <= lab.chunks[i + 1].pos

\* C10, as stated: for all source text, empty or whitespace-only text
\* included, the result is a non-empty sequence, every element is non-empty
\* after trimming, and the start positions do not go backwards.
C10_ChunksNonEmptyAndOrdered ==
  ChunksMade => (Len(lab.chunks) > 0 /\ EveryChunkNonBlank /\ LeftToRight)

\* C10, amended: for every source text with at least one non-whitespace
\* character the result is a non-empty sequence; for empty or whitespace-only
\* text it is the empty sequence; in both cases every element is non-empty
\* after trimming and the start positions do not go backwards.
C10_ChunksOfNonBlankText ==
  ChunksMade => /\ (Len(lab.chunks) > 0) = (trim(lab.text) # "")
                /\ EveryChunkNonBlank
                /\ LeftToRight

\* C10, its case: a text cut into several windows
C10_SeveralWindows ==
  /\ ChunksMade
  /\ lab.chunkSize = ShortChunkSize
  /\ Len(lab.chunks) >= 3
  /\ lab.chunks[1].pos < lab.chunks[2].pos

\* the character at the 1-based position p of the cleaned text is in the
\* chunk c, at the place its offset gives
HoldsCharacter(c, cleaned, p) ==
  /\ p - c.pos \in 1..Len(c.text)
  /\ At(c.text, p - c.pos) = At(cleaned, p)

\* every character of the cleaned text that is not a space is in some chunk
NothingLost(chunks, cleaned) ==
  \A p \in 1..Len(cleaned) :
    At(cleaned, p) # " " => \E i \in 1..Len(chunks) : HoldsCharacter(chunks[i], cleaned, p)

\* C11: chunking loses no text: on the question/answer path and on the
\* section / window path every segment of the cleaned text, the text after
\* the last marker included, is contained in some chunk.
C11_ChunkingLosesNoText ==
  ChunksMade => NothingLost(lab.chunks, CleanText(lab.text))

\* the same for the texts that take the section / window path
C11_SectionPathLosesNoText ==
  (ChunksMade /\ ~isEducationalDocument(CleanText(lab.text)))
    => NothingLost(lab.chunks, CleanText(lab.text))

(***************************************************************************)
(* Properties of the embedder                                              *)
(***************************************************************************)
\* the vector has FallbackDimension components
HasFallbackDimension(vector) ==
  /\ vector.dim = FallbackDimension
  /\ DOMAIN vector.at \subseteq 0..(FallbackDimension - 1)

IsUnit(vector) == NormSquare(vector).num = NormSquare(vector).den

\* C12, as stated: for all text, the empty string included, the fallback
\* path returns 256 components whose Euclidean norm is 1, and the same text
\* gives the same vector again.
C12_FallbackIsUnitVector ==
  EmbeddedTwice => /\ HasFallbackDimension(lab.first)
                   /\ IsUnit(lab.first)
                   /\ lab.second = lab.first

\* C12, amended: for every text the fallback path returns 256 components
\* and the same text gives the same vector again; the Euclidean norm is 1
\* for every text but the empty string, for which all 256 components are 0.
C12_FallbackIsUnitUnlessEmpty ==
  EmbeddedTwice => /\ HasFallbackDimension(lab.first)
                   /\ IsUnit(lab.first) = (lab.text # "")
                   /\ (lab.text = "" => DOMAIN lab.first.at = {})
                   /\ lab.second = lab.first

\* C12, its case: a text without a word longer than 2 characters, whose
\* vector is made of character features alone and has norm 1
C12_UnitWithoutWords ==
  /\ EmbeddedTwice
  /\ lab.text = "ab"
  /\ IsUnit(lab.first)
  /\ DOMAIN lab.first.at # {}

(***************************************************************************)
(* Properties of the vector search                                         *)
(***************************************************************************)
\* the embedding of the chunk is JSON text of the query embedding's length
Comparable(chunk, queryEmbedding) ==
  /\ Parses(chunk.embedding)
  /\ Parse(chunk.embedding).dim = queryEmbedding.dim

\* the chunk is comparable and as similar as the handler asks for
Similar(chunk, queryEmbedding) ==
  /\ Comparable(chunk, queryEmbedding)
  /\ SimGeq(cosineSimilarity(queryEmbedding, Parse(chunk.embedding)), VectorThreshold)

\* C13: a chunk whose embedding does not deserialize, or whose length is
\* not the query embedding's, is skipped alone: the search returns, every
\* other chunk is scored, so the result holds exactly the chunks that are
\* similar enough (there are fewer than topK), each once, and it is the
\* result of the search over the store without the chunks that fail.
C13_FailureIsPerChunk ==
  Searched =>
    /\ \A j \in 1..Len(lab.result) : Similar(lab.result[j].chunk, lab.queryEmbedding)
    /\ \A i \in 1..Len(lab.chunks) :
         Similar(lab.chunks[i], lab.queryEmbedding)
           => \E j \in 1..Len(lab.result) : lab.result[j].chunk = lab.chunks[i]
    /\ Len(lab.result)
         = Cardinality({i \in 1..Len(lab.chunks) : Similar(lab.chunks[i], lab.queryEmbedding)})
    /\ \A j \in 1..(Len(lab.result) - 1) :
         SimGeq(lab.result[j].similarity, lab.result[j + 1].similarity)

\* C13, its case: the first chunk does not deserialize, the second is of
\* another length, and the third is scored and returned
C13_ThirdChunkScored ==
  /\ Searched
  /\ Len(lab.chunks) = 3
  /\ ~Parses(lab.chunks[1].embedding) /\ ~Missing(lab.chunks[1].embedding)
  /\ Parses(lab.chunks[2].embedding) /\ ~Comparable(lab.chunks[2], lab.queryEmbedding)
  /\ Len(lab.result) = 1
  /\ lab.result[1].chunk = lab.chunks[3]

(***************************************************************************)
(* Properties of the retrieval                                             *)
(***************************************************************************)
\* C16: every source of every response has a similarity in [0,1], that is
\* 0..100 in hundredths, also for a query with many or repeated tokens
\* longer than 2 characters and for a definition query with its +2.
C16_SimilarityInUnitInterval ==
  Retrieved => \A i \in 1..Len(lab.sources) : lab.sources[i].similarity \in 0..100

(***************************************************************************)
(* Properties of the extractor                                             *)
(***************************************************************************)
\* the return statements of the definition branch, lines 186-294
DefinitionSites ==
  {"def.notfound", "def.pattern", "def.detailed", "def.sentences", "def.sentence",
   "def.nodefinition"}

LabSubject == ExtractSubject(lab.context, lab.query)

\* C6: for a query that asks for the institution with the words college,
\* university or institute, "What is the college name?" among them, and a
\* context with "XYZ Institute of Technology" under "Education", the answer
\* is that institution name.
C6_InstitutionQueryReturnsInstitution ==
  (ExtractAnswered /\ lab.query \in InstitutionQueries
     /\ includes(lab.context, "Education\nXYZ Institute of Technology"))
    => (lab.result.kind = "return" /\ lab.result.answer = "XYZ Institute of Technology")

\* C7: when the subject X extracted from a definition-style query occurs
\* nowhere in the context, case-insensitively, the answer is exactly
\* Information about "X" not found in the document. and it is returned before
\* any pattern, sentence search or later intent.
C7_AbsentSubjectGetsNotFound ==
  (ExtractAnswered /\ LabSubject # ""
     /\ ~includes(toLowerCase(lab.context), toLowerCase(LabSubject)))
    => lab.result = [kind |-> "return", site |-> "def.notfound", pat |-> 0,
                     answer |-> NotFoundMessage(LabSubject)]

\* the same for the subjects that are still strings after the typo table
C7_AbsentStringSubjectGetsNotFound ==
  (ExtractAnswered /\ LabSubject # "" /\ ~SubjectIsObject(lab.context, lab.query)
     /\ ~includes(toLowerCase(lab.context), toLowerCase(LabSubject)))
    => lab.result = [kind |-> "return", site |-> "def.notfound", pat |-> 0,
                     answer |-> NotFoundMessage(LabSubject)]

\* a subject the typo table rewrites: "explain htm" is normalized to HTML, which the context does
\* not hold
C7_NormalizedSubjectAbsent ==
  /\ ExtractAnswered
  /\ lab.query = "explain htm"
  /\ ~includes(toLowerCase(lab.context), "html")
  /\ lab.result.answer = "Information about \"HTML\" not found in the document."

\* C8, as stated: for every query that contains "what is", "define" or
\* "explain" the project, name, institution, employer, date, skills and
\* generic branches are never evaluated: no such query is answered by a
\* return outside the definition branch.
C8_TriggerWordsEndInDefinitionBranch ==
  (ExtractAnswered /\ HasAny(toLowerCase(lab.query), definitionTriggers)
     /\ lab.result.kind = "return")
    => lab.result.site \in DefinitionSites

\* C8, amended: every query from which a non-empty subject is extracted ends
\* in the definition branch: it is answered by one of the branch's returns,
\* or the call raises there (a TypeError on the subject read from the typo
\* table, a SyntaxError on the pattern built from the subject); no later
\* intent is evaluated.  A query that holds a trigger word but yields no
\* subject is answered by the later intents.
C8_SubjectEndsInDefinitionBranch ==
  ExtractAnswered =>
    IF LabSubject # ""
    THEN \/ lab.result.kind = "throw" /\ lab.result.site \in {"TypeError", "SyntaxError"}
         \/ lab.result.kind = "return" /\ lab.result.site \in DefinitionSites
    ELSE lab.result.kind = "return" /\ lab.result.site \notin DefinitionSites

\* C8, its case: a query with a subject and the keyword of a later intent is
\* answered by the definition branch
C8_DefinitionBranchWins ==
  /\ ExtractAnswered
  /\ lab.query = "What is the college name?"
  /\ includes(lab.context, "Institute")
  /\ lab.result.site = "def.notfound"

\* the return statements of the generic fallback, lines 479-515
GenericSites == {"generic.best", "generic.snippet", "generic.notfound"}

\* the words the intents after the definition branch look for
IntentWords ==
  {"project", "name", "college", "university", "institute", "company", "employer",
   "work", "date", "when", "time", "skill", "technology", "programming"}

\* the query yields no subject and holds no word of a later intent
NoIntentQuery == LabSubject = "" /\ ~HasAny(toLowerCase(lab.query), IntentWords)

\* lines 488-504: the sentence is long enough and holds a query word
Scores(sentence, queryWords) ==
  Len(trim(sentence)) > 20 /\ SentenceScore(sentence, queryWords) > 0

\* the answer is the first of the best-scoring sentences
IsBestOf(answer, sentences, queryWords) ==
  \E i \in 1..Len(sentences) :
    /\ Scores(sentences[i], queryWords)
    /\ answer = trim(sentences[i])
    /\ \A j \in 1..Len(sentences) :
         Len(trim(sentences[j])) > 20
           => SentenceScore(sentences[j], queryWords) <= SentenceScore(sentences[i], queryWords)

\* C19, as stated: a query that matches no intent raises no error and is
\* answered by the generic fallback, with the literal "Information not
\* found in the document." whenever the context is empty or no sentence of
\* it holds a query token longer than 2 characters.
NothingOverlaps(context, sentences, queryWords) ==
  context = "" \/ \A i \in 1..Len(sentences) : SentenceScore(sentences[i], queryWords) = 0

C19_NoOverlapGetsNotFound ==
  (ExtractAnswered /\ NoIntentQuery)
    => /\ lab.result.kind = "return"
       /\ lab.result.site \in GenericSites
       /\ NothingOverlaps(lab.context, splitOn(lab.context, SentenceEnd),
                          QueryWords(toLowerCase(lab.query)))
            => lab.result.answer = NotFoundLiteral

\* what the generic fallback answers: the first best-scoring sentence among
\* those longer than 20 characters, else the start of the context, else the
\* literal message
GenericAsWritten(result, context, sentences, queryWords) ==
  IF \E i \in 1..Len(sentences) : Scores(sentences[i], queryWords)
    THEN result.site = "generic.best" /\ IsBestOf(result.answer, sentences, queryWords)
  ELSE IF trim(substring0(context, 300)) # ""
    THEN result.site = "generic.snippet" /\ result.answer = trim(substring0(context, 300))
  ELSE result.site = "generic.notfound" /\ result.answer = NotFoundLiteral

\* C19, amended: a query that matches no intent raises no error and is
\* answered by the generic fallback: with the best-scoring sentence when a
\* sentence longer than 20 characters holds a query token longer than 2
\* characters; otherwise with the first 300 characters of the context,
\* trimmed; and with the literal message only when that is empty.
C19_NoOverlapGetsContextStart ==
  (ExtractAnswered /\ NoIntentQuery)
    => /\ lab.result.kind = "return"
       /\ GenericAsWritten(lab.result, lab.context, splitOn(lab.context, SentenceEnd),
                           QueryWords(toLowerCase(lab.query)))

\* C19, its case: no sentence of a context with text holds the query's
\* token, and the answer is the start of the context
C19_StartOfContextAnswered ==
  /\ ExtractAnswered
  /\ lab.query = "zebra"
  /\ lab.result.site = "generic.snippet"
  /\ lab.result.answer # NotFoundLiteral
  /\ startsWith(lab.context, lab.result.answer)

(***************************************************************************)
(* Properties of the server machine                                        *)
(***************************************************************************)
UploadDone(u) == uploadReq[u].pc = "done"
QueryDone(q) == queryReq[q].pc = "done"
DeleteDone(d) == deleteReq[d].pc = "done"

StoredIds == {documents[i].id : i \in 1..Len(documents)}
ChunkOwners == {documentChunks[i].documentId : i \in 1..Len(documentChunks)}

\* C1: in every reachable state every stored chunk's documentId is the id of
\* a stored document, whatever the interleaving of uploads, queries and
\* deletes.
C1_ChunksBelongToStoredDocuments == ChunkOwners \subseteq StoredIds

\* the delete request d has just been served by a call of deleteDocument
DeleteServed(d) ==
  /\ deleteReq[d].pc = "idle"
  /\ deleteReq'[d].pc = "done"
  /\ deleteReq'[d].status = 200

\* C2: when deleteDocument(id) returns the document id is gone and no chunk
\* has documentId = id; every other document, every chunk of another
\* document and every query record is as it was, in the same order.
C2_DeleteRemovesDocumentAndChunks ==
  [][\A d \in Deletes :
       DeleteServed(d) =>
         LET id == deleteReq'[d].id
         IN  /\ id \in StoredIds
             /\ \A i \in 1..Len(documents') : documents'[i].id # id
             /\ \A i \in 1..Len(documentChunks') : documentChunks'[i].documentId # id
             /\ documents' = SelectSeq(documents, LAMBDA x : x.id # id)
             /\ documentChunks' = SelectSeq(documentChunks, LAMBDA c : c.documentId # id)
             /\ queries' = queries]_vars

\* C2, its case: a document whose chunks were stored has been deleted, and
\* its chunks with it, while another document is still stored
C2_DeletedWithChunks ==
  \E d \in Deletes, u \in Uploads :
    /\ DeleteDone(d) /\ deleteReq[d].status = 200
    /\ UploadDone(u) /\ uploadReq[u].status = 200
    /\ uploadReq[u].documentId = deleteReq[d].id
    /\ Len(uploadReq[u].textChunks) > 0
    /\ deleteReq[d].id \notin ChunkOwners
    /\ Len(documentChunks) > 0


\* the query request q is answered in this step with status 200: a response
\* carrying an answer and a sources list
QueryAnswered(q) ==
  /\ ~QueryDone(q)
  /\ queryReq'[q].pc = "done"
  /\ queryReq'[q].status = 200

\* the record of the answer the request q was given
RecordOf(req) ==
  [query |-> req.query, response |-> req.answer, sources |-> Stringify(req.sources)]

\* C3, as stated: every query answered with an answer and a sources list
\* appends exactly one QueryRecord holding the query, the answer and the
\* serialized sources; nothing else touches the records.
C3_EveryAnsweredQueryIsLogged ==
  [][/\ \A q \in Queries :
          QueryAnswered(q) => queries' = Append(queries, RecordOf(queryReq'[q]))
     /\ (\A q \in Queries : ~QueryAnswered(q)) => queries' = queries]_vars

\* C3, amended: a query whose answer the extractor produced (at least one
\* chunk retrieved, answer not blank) appends exactly one QueryRecord with
\* the query, that answer and the serialized sources; a query answered with
\* the "I couldn't find any information" message and an empty sources list
\* appends none; no step appends more than one record or changes an earlier
\* one.
C3_ExtractedAnswersAreLogged ==
  [][/\ \A q \in Queries :
          (QueryAnswered(q) /\ queryReq'[q].extracted)
             => queries' = Append(queries, RecordOf(queryReq'[q]))
     /\ \A q \in Queries :
          (QueryAnswered(q) /\ ~queryReq'[q].extracted)
             => /\ queries' = queries
                /\ queryReq'[q].sources = <<>>
                /\ queryReq'[q].answer \in {NoChunksAnswer(queryReq'[q].query),
                                            BlankAnswer(queryReq'[q].query)}
     /\ (\A q \in Queries : ~QueryAnswered(q)) => queries' = queries]_vars

\* C3, its case: one query was answered by the extractor and logged, another
\* retrieved chunks, got a blank extraction and was answered unlogged
C3_LoggedAndUnlogged ==
  \E q1, q2 \in Queries :
    /\ QueryDone(q1) /\ queryReq[q1].extracted
    /\ QueryDone(q2) /\ queryReq[q2].status = 200 /\ ~queryReq[q2].extracted
    /\ queryReq[q2].found > 0
    /\ queries = <<RecordOf(queryReq[q1])>>

\* the embedding calls a request has completed: <<text, reply, vector>>
EmbeddingsMade ==
  UNION {{<<uploadReq[u].textChunks[i], uploadReq[u].replies[i], uploadReq[u].embeddings[i]>> :
            i \in 1..Len(uploadReq[u].embeddings)} : u \in Uploads}
    \cup {<<queryReq[q].query, queryReq[q].reply, queryReq[q].embedding>> :
            q \in {r \in Queries : queryReq[r].reply # ""}}

\* C4: generateEmbedding never fails because of the provider.  With a
\* provider every call asks it, also after a failure, and a call whose
\* request throws returns the fallback vector of its text; without a provider
\* every call returns the fallback vector.  No upload of a readable file
\* ends in an error.
C4_ProviderFailureIsPerCall ==
  /\ \A e \in EmbeddingsMade :
       /\ e[2] \in (IF openai THEN {"ok", "fail"} ELSE {"none"})
       /\ e[2] = "ok" => e[3] \in ProviderChoices
       /\ e[2] # "ok" => e[3] = fallbackOf[e[1]]
  /\ providerCalls = (IF openai THEN embedCalls ELSE 0)
  /\ \A u \in Uploads : uploadReq[u].status = 500 => ~uploadReq[u].file.readable

\* C4, its case: a provider call threw and the next call asked the provider
\* again and was answered
C4_ProviderAskedAgainAfterFailure ==
  /\ openai
  /\ \E u \in Uploads : uploadReq[u].replies = <<"fail", "ok">>

\* C5: all stored chunk embeddings have the same length, and every query
\* embedding has that length too.
C5_OneEmbeddingDimension ==
  LET stored == {Parse(documentChunks[i].embedding).dim : i \in 1..Len(documentChunks)}
      asked == {queryReq[q].embedding.dim : q \in {r \in Queries : queryReq[r].reply # ""}}
  IN  Cardinality(stored) <= 1 /\ (stored # {} => asked \subseteq stored)

\* the queries for which the handler called the extractor
Extracted == {q \in Queries : QueryDone(q) /\ queryReq[q].found > 0}

QueryEnds(q) == queryReq[q].pc # "done" /\ queryReq'[q].pc = "done"

\* the results of stage 1 for the query of q, at the step that answers it
LexicalResults(q) == textSearch(documentChunks, documents, queryReq'[q].query)

\* C14: when stage 1 gives 3 or more results for a query, neither the
\* embedder nor the vector search is invoked for that query.
C14_StageTwoOnlyWhenFewResults ==
  [][\A q \in Queries :
       (QueryEnds(q) /\ Len(LexicalResults(q)) >= MinTextResults)
         => /\ queryReq'[q].reply = ""
            /\ queryReq'[q].embedding = NoVector
            /\ queryReq'[q].found = Len(LexicalResults(q))]_vars

\* the part of it about the vector search alone
C14_VectorSearchOnlyWhenFewResults ==
  [][\A q \in Queries :
       (QueryEnds(q) /\ Len(LexicalResults(q)) >= MinTextResults)
         => queryReq'[q].found = Len(LexicalResults(q))]_vars

\* how often x is in the sequence
Count(seq, x) == Cardinality({i \in 1..Len(seq) : seq[i] = x})

\* the two sequences hold the same entries, each as often
SameEntries(a, b) ==
  /\ Len(a) = Len(b)
  /\ \A i \in 1..Len(a) : Count(a, a[i]) = Count(b, a[i])

\* the results of stage 2 for the query of q, at the step that answers it:
\* none when stage 1 gave enough
VectorResults(q, lexical) ==
  IF Len(lexical) < MinTextResults
  THEN searchSimilarChunks(documentChunks, documents, queryReq'[q].embedding,
                           VectorTopK, VectorThreshold)
  ELSE <<>>

BothStages(q, lexical) == sourcesOf(lexical \o VectorResults(q, lexical))

\* C15: the results of stage 2 are added to those of stage 1 without
\* replacing or deduplicating them: the returned sources are the stage-1
\* results and the stage-2 results, each entry as often as the two stages
\* found it, so a chunk found by both is there twice.
C15_StageTwoIsAppended ==
  [][\A q \in Queries :
       (QueryEnds(q) /\ queryReq'[q].extracted)
         => \E both \in {BothStages(q, LexicalResults(q))} :
              SameEntries(queryReq'[q].sources, both)]_vars

\* C15, its case: the sources of an answered query name the same chunk of
\* the same document twice, with its lexical score and with its cosine
C15_SameChunkTwice ==
  \E q \in Queries :
    /\ QueryDone(q) /\ queryReq[q].extracted
    /\ \E i, j \in 1..Len(queryReq[q].sources) :
         /\ i < j
         /\ queryReq[q].sources[i].docName = queryReq[q].sources[j].docName
         /\ queryReq[q].sources[i].chunkIndex = queryReq[q].sources[j].chunkIndex
         /\ queryReq[q].sources[i].similarity # queryReq[q].sources[j].similarity

\* the upload request u carries a file that extractTextFromPDF cannot read
Unreadable(req) == req.file.present /\ ~req.file.readable

\* C17: an upload whose text extraction fails ends with an error response
\* after the clean-up of its temporary file, and no step of it changes the
\* store: it creates no document and no chunk.
C17_FailedExtractionStoresNothing ==
  /\ [](\A u \in Uploads :
          (UploadDone(u) /\ Unreadable(uploadReq[u]))
            => /\ uploadReq[u].status = 500
               /\ uploadReq[u].documentId = 0
               /\ uploadReq[u].embeddings = <<>>)
  /\ [][\A u \in Uploads :
          (Unreadable(uploadReq'[u]) /\ uploadReq'[u] # uploadReq[u])
            => /\ documents' = documents
               /\ documentChunks' = documentChunks
               /\ nextId' = nextId
               /\ embedCalls' = embedCalls
               /\ uploadReq'[u].pc = "done" => uploadReq[u].pc = "failing"]_vars

\* C17, its case: an upload of a damaged file has ended in an error while
\* the document and the chunks of another upload are stored
C17_FailedBesideStored ==
  \E u1, u2 \in Uploads :
    /\ UploadDone(u1) /\ Unreadable(uploadReq[u1]) /\ uploadReq[u1].status = 500
    /\ UploadDone(u2) /\ uploadReq[u2].status = 200
    /\ Len(documents) = 1 /\ documents[1].id = uploadReq[u2].documentId
    /\ Len(documentChunks) > 0

\* the delete request d is answered in this step
DeleteEnds(d) == deleteReq[d].pc = "idle" /\ deleteReq'[d].pc = "done"

Overlapped(q) ==
  \E d \in Deletes : DeleteDone(d) /\ deleteReq[d].status = 200 /\ q \in deleteReq[d].during

\* the names a source may carry: a stored document's, an uploaded file's,
\* or the placeholder
SourceNames == {f.originalName : f \in Files \ {NoFile}} \cup {UnknownDocument}

\* C20: a query that was in flight when a document was deleted is not made
\* to fail by the deletion: it ends with an answer and a sources list (the
\* only error left is the extractor's own TypeError on the query's subject,
\* raised whatever the store holds), and every source it cites carries a
\* document name: the original name or 'Unknown Document'.
C20_DeletionDoesNotFailQuery ==
  \A q \in Queries :
    (QueryDone(q) /\ Overlapped(q))
      => /\ queryReq[q].status = 200 \/ SubjectIsObject("", queryReq[q].query)
         /\ queryReq[q].status = 200 => queryReq[q].answer # ""
         /\ \A i \in 1..Len(queryReq[q].sources) :
              queryReq[q].sources[i].docName \in SourceNames

\* C20, its case: a delete was served while the query waited, and the query
\* was answered from a chunk whose document is gone, under the placeholder
C20_CitesDeletedDocument ==
  \E q \in Queries :
    /\ QueryDone(q) /\ Overlapped(q)
    /\ queryReq[q].status = 200 /\ queryReq[q].extracted
    /\ documents = <<>>
    /\ \E i \in 1..Len(queryReq[q].sources) :
         queryReq[q].sources[i].docName = UnknownDocument

\* the number of chunks stored under the document id
ChunksStoredFor(id) ==
  Cardinality({i \in 1..Len(documentChunks) : documentChunks[i].documentId = id})

\* every stored document has as many stored chunks as its chunksCount says
ChunksMatchCount ==
  \A i \in 1..Len(documents) :
    ChunksStoredFor(documents[i].id) = documents[i].chunksCount

\* C21: a document and its chunks are created together: a request that is
\* served while others are in progress (a query that reads the store, a
\* delete) finds every stored document with exactly chunksCount stored
\* chunks, never a document with chunksCount > 0 and no chunk yet.
C21_DocumentAndChunksTogether ==
  [][((\E q \in Queries : QueryEnds(q) /\ queryReq'[q].status # 400)
        \/ (\E d \in Deletes : DeleteEnds(d)))
       => ChunksMatchCount]_vars

\* the weaker statement about finished uploads: when no upload is between
\* its createDocument and its last createDocumentChunk, and no delete has
\* been served, the counts agree
C21_CountsAgreeAfterUploads ==
  ((\A u \in Uploads : uploadReq[u].pc \in {"idle", "extracting", "failing", "cleanup", "done"})
     /\ (\A d \in Deletes : ~DeleteDone(d)))
    => ChunksMatchCount

\* the upload u runs its chunk loop (lines 565-572) in this step
ChunksStoredBy(u) == uploadReq[u].pc # "cleanup" /\ uploadReq'[u].pc = "cleanup"

\* the chunks stored under the document id, in the order of the store
ChunksFor(chunks, id) == SelectSeq(chunks, LAMBDA c : c.documentId = id)

\* the stored form of the embedding of a text, given what the provider did
\* in that call
EmbeddingsOf(text, kind) ==
  IF kind = "ok" THEN {Stringify(v) : v \in ProviderChoices}
  ELSE {Stringify(generateEmbedding(text, Failed))}

\* the chunks are those of the chunker, numbered from 0 in its order, each
\* with the embedding of its own text
NumberedInOrder(mine, textChunks, replies) ==
  /\ Len(mine) = Len(textChunks)
  /\ \A i \in 1..Len(textChunks) :
       /\ mine[i].chunkIndex = i - 1
       /\ mine[i].text = textChunks[i]
       /\ mine[i].embedding \in EmbeddingsOf(textChunks[i], replies[i])

\* the upload u is answered 200 in this step
UploadSucceeds(u) ==
  uploadReq[u].pc # "done" /\ uploadReq'[u].pc = "done" /\ uploadReq'[u].status = 200

\* C22: when an upload stores the N chunks of the chunker, the chunks stored
\* for its document carry chunkIndex 0..N-1, each once and in the chunker's
\* order, each with the embedding computed for its own text; they are
\* appended to the store; the document was created with chunksCount = N,
\* and N is the chunksCount the response of the upload reports.
C22_ChunksAreNumberedInOrder ==
  [][\A u \in Uploads :
       /\ ChunksStoredBy(u) =>
            \E mine \in {ChunksFor(documentChunks', uploadReq'[u].documentId)} :
              /\ NumberedInOrder(mine, textChunksOf[uploadReq'[u].file], uploadReq'[u].replies)
              /\ documentChunks' = documentChunks \o mine
              /\ \A i \in 1..Len(documents') :
                   documents'[i].id = uploadReq'[u].documentId
                     => documents'[i].chunksCount = Len(mine)
       /\ UploadSucceeds(u) =>
            uploadReq'[u].chunksCount = Len(textChunksOf[uploadReq'[u].file])]_vars

\* C22, its case: an upload of two chunks with different fallback embeddings
\* has completed and its document and both chunks are stored
C22_TwoChunksStored ==
  \E u \in Uploads :
    /\ UploadDone(u) /\ uploadReq[u].status = 200
    /\ uploadReq[u].chunksCount = 2
    /\ uploadReq[u].replies = <<"none", "none">>
    /\ uploadReq[u].embeddings[1] # uploadReq[u].embeddings[2]
    /\ uploadReq[u].documentId \in StoredIds
    /\ Len(ChunksFor(documentChunks, uploadReq[u].documentId)) = 2

\* subjectLower of line 189 for the query asked
LabSubjectLower == toLowerCase(LabSubject)

\* the sites of the definition branch that return a captured text
CaptureSites == {"def.pattern", "def.detailed"}

\* x occurs in text at 1-based position p with no word character next to it
SeparateAt(text, x, p) ==
  /\ slice(text, p - 1, p - 1 + Len(x)) = x
  /\ p = 1 \/ ~IsWordChar(At(text, p - 1))
  /\ p + Len(x) > Len(text) \/ ~IsWordChar(At(text, p + Len(x)))

\* x is in text as a separate word, not only as a part of a longer word
AsSeparateWord(text, x) ==
  \E p \in 1..(Len(text) - Len(x) + 1) : SeparateAt(text, x, p)

HasDefinitionKeyword(text) ==
  \E k \in 1..Len(definitionKeywords) : includes(toLowerCase(text), definitionKeywords[k])

\* C23: in the definition branch a captured text is returned only if (a) it
\* holds a definition keyword or comes from one of the first three patterns,
\* and (b) it contains the subject and either starts with it or has it as a
\* separate word, not as a part of a longer word; for every query, those with
\* "explain", "detail" or "more" included.
C23_CaptureIsValidated ==
  (ExtractAnswered /\ lab.result.kind = "return" /\ lab.result.site \in CaptureSites)
    => /\ HasDefinitionKeyword(lab.result.answer) \/ lab.result.pat <= 3
       /\ includes(toLowerCase(lab.result.answer), LabSubjectLower)
       /\ \/ startsWith(toLowerCase(lab.result.answer), LabSubjectLower)
          \/ AsSeparateWord(toLowerCase(lab.result.answer), LabSubjectLower)

\* the part of it that holds: a returned capture contains the subject, and
\* holds a keyword or comes from one of the first three patterns unless the
\* query asks for detail
C23_CaptureContainsSubject ==
  (ExtractAnswered /\ lab.result.kind = "return" /\ lab.result.site \in CaptureSites)
    => /\ includes(toLowerCase(lab.result.answer), LabSubjectLower)
       /\ lab.result.site = "def.pattern"
            => (HasDefinitionKeyword(lab.result.answer) \/ lab.result.pat <= 3)

\* the text after the trigger the query matches first, in the order of
\* lines 134-141, before any preprocessing
RawSubject(query) ==
  IF includes(toLowerCase(query), "what is") THEN SubjectAfter(query, "what is")
  ELSE IF includes(toLowerCase(query), "define") THEN SubjectAfter(query, "define")
  ELSE IF includes(toLowerCase(query), "explain") THEN SubjectAfter(query, "explain")
  ELSE ""

\* the subject the claim expects: the pronoun resolved, then the typo table
Preprocessed(context, query) == Normalized(ResolvePronoun(RawSubject(query), context))

\* C24: for "what is X", "define X" and "explain X" alike, X is replaced by
\* the first common technology term of the context when it is "it" or
\* "it more", and mapped through the typo table when it equals a key, before
\* the presence check: the branch works on the preprocessed subject, and a
\* "not found" answer names it.
C24_SubjectPreprocessedForAllTriggers ==
  (ExtractAnswered /\ lab.result.kind = "return" /\ RawSubject(lab.query) # "")
    => /\ LabSubject = Preprocessed(lab.context, lab.query)
       /\ lab.result.site = "def.notfound"
            => lab.result.answer = NotFoundMessage(Preprocessed(lab.context, lab.query))

\* the part of it that holds: the explain trigger
C24_SubjectPreprocessedForExplain ==
  (ExtractAnswered /\ lab.result.kind = "return" /\ RawSubject(lab.query) # ""
     /\ ~includes(toLowerCase(lab.query), "what is")
     /\ ~includes(toLowerCase(lab.query), "define"))
    => /\ LabSubject = Preprocessed(lab.context, lab.query)
       /\ lab.result.site = "def.notfound"
            => lab.result.answer = NotFoundMessage(Preprocessed(lab.context, lab.query))

\* the intents in their declared order, the generic fallback last
Intents == 1..8

\* the place in that order of the intent a return site belongs to; the sites
\* of the second project block belong to none
IntentOf(site) ==
  CASE site \in DefinitionSites -> 1
    [] site \in {"project.names", "project.none"} -> 2
    [] site \in {"name.match", "name.document", "name.none"} -> 3
    [] site \in {"college.match", "college.snippet"} -> 4
    [] site = "company.match" -> 5
    [] site = "date.match" -> 6
    [] site = "skills.match" -> 7
    [] site \in GenericSites -> 8
    [] OTHER -> 0

\* does the query trigger the intent?
Triggers(intent, context, query) ==
  LET lowerQuery == toLowerCase(query)
  IN  CASE intent = 1 -> RawSubject(query) # ""
        [] intent = 2 -> includes(lowerQuery, "project")
        [] intent = 3 -> includes(lowerQuery, "name")
                           /\ HasAny(lowerQuery, {"candidate", "person"})
        [] intent = 4 -> HasAny(lowerQuery, {"college", "university", "institute"})
        [] intent = 5 -> HasAny(lowerQuery, {"company", "employer", "work"})
        [] intent = 6 -> HasAny(lowerQuery, {"date", "when", "time"})
        [] intent = 7 -> HasAny(lowerQuery, {"skill", "technology", "programming"})
        [] OTHER -> TRUE

\* the intents that fall through, and whether one of their patterns matches
FallsThrough == {5, 6, 7}

SomePatternMatches(intent, context) ==
  CASE intent = 5 -> \E k \in 1..Len(companyPatterns) : match(context, companyPatterns[k], TRUE).ok
    [] intent = 6 -> \E k \in 1..Len(datePatterns) : match(context, datePatterns[k], FALSE).ok
    [] intent = 7 -> \E k \in 1..Len(skillPatterns) : match(context, skillPatterns[k], TRUE).ok
    [] OTHER -> TRUE

\* the intent is triggered and, once triggered, returns
Answers(intent, context, query) ==
  Triggers(intent, context, query)
    /\ (intent \in FallsThrough => SomePatternMatches(intent, context))

\* C25: the intents are a first-match-wins list in the order definition,
\* project, person name, institution, employer, date, skills, generic: the
\* answer comes from the earliest triggered intent, except that the
\* employer, date and skills intents are passed over when none of their
\* patterns matches the context; the definition, project, person-name and
\* institution intents, once triggered, always return.  The definition
\* intent is triggered by a query that yields a subject (line 186).
C25_EarliestTriggeredIntentAnswers ==
  (ExtractAnswered /\ lab.result.kind = "return")
    => /\ IntentOf(lab.result.site) \in Intents
       /\ Answers(IntentOf(lab.result.site), lab.context, lab.query)
       /\ \A earlier \in 1..(IntentOf(lab.result.site) - 1) :
            ~Answers(earlier, lab.context, lab.query)

\* C25, its cases: a query that triggers the project and the institution
\* intents is answered by the project intent, and a query that triggers the
\* employer and the skills intents is answered by the skills intent when no
\* employer pattern matches
C25_ProjectBeforeInstitution ==
  /\ ExtractAnswered
  /\ lab.query = "college project"
  /\ includes(lab.context, "Institute")
  /\ IntentOf(lab.result.site) = 2

C25_EmployerPassedOver ==
  /\ ExtractAnswered
  /\ Triggers(5, lab.context, lab.query) /\ Triggers(7, lab.context, lab.query)
  /\ ~SomePatternMatches(5, lab.context)
  /\ lab.result.site = "skills.match"

\* the query asks to explain or describe a project
AsksProjectDescription(query) ==
  /\ includes(toLowerCase(query), "project")
  /\ HasAny(toLowerCase(query), {"explain", "describe"})

\* the sites of lines 417-437, where a description pattern has matched
DescriptionSites == {"project2.accident", "project2.tournament", "project2.description"}

\* what the description patterns of lines 410-460 give for the query
DescriptionFor(context, query) == ImprovedProjectBranch(context, toLowerCase(query))

\* C26: for a query that contains "project" and "explain" or "describe" the
\* description patterns are tried first (the two for a named project, then
\* the general one), and the answer is the project description when one of
\* them matches; project names are the answer only when none matches.
C26_DescriptionBeforeNames ==
  (ExtractAnswered /\ AsksProjectDescription(lab.query)
     /\ DescriptionFor(lab.context, lab.query).site \in DescriptionSites)
    => /\ lab.result.kind = "return"
       /\ lab.result.answer = DescriptionFor(lab.context, lab.query).answer

\* what holds instead: the second project block never answers
C26_SecondProjectBlockNeverAnswers ==
  ExtractAnswered => IntentOf(lab.result.site) # 0 \/ lab.result.kind = "throw"

(***************************************************************************)
(* Properties of the window loop                                           *)
(***************************************************************************)
\* the last pass left a window that does not reach the end of the section
WindowBeforeEnd == WindowPassed /\ lab.end < Len(lab.section)

\* the last '.', newline or ',' of the last window, counted from the
\* window's own start, -1 when it holds none
LastBreakInWindow == BreakPoint(slice(lab.section, lab.from, lab.end))

\* the rule for a window that starts at from: cut after the break point when
\* it lies past 60% of the window, else the full window
CutAfter(relative) ==
  /\ lab.chunk = slice(lab.section, lab.from, lab.from + relative + 1)
  /\ lab.start = lab.from + relative + 1 - lab.overlap

HardCut ==
  /\ lab.chunk = slice(lab.section, lab.from, lab.end)
  /\ lab.start = lab.end - lab.overlap

\* C27: the break-point rule applies to every window that does not reach the
\* end of the section, not only the first: if the window holds '.', newline
\* or ',' past 60% of the window, counted from the window's own start, the
\* chunk is cut just after the last of them and the next window starts at
\* the cut minus the overlap; otherwise the chunk is the full window and the
\* next window starts at the window's end minus the overlap.
C27_BreakPointRuleInEveryWindow ==
  WindowBeforeEnd =>
    IF 10 * LastBreakInWindow > 6 * lab.chunkSize
      THEN CutAfter(LastBreakInWindow)
      ELSE HardCut

\* what holds instead: the first window follows the rule, and every later
\* window that does not reach the end is cut at its end
C27_RuleInFirstWindowOnly ==
  WindowBeforeEnd =>
    IF lab.from = 0 /\ 10 * LastBreakInWindow > 6 * lab.chunkSize
      THEN CutAfter(LastBreakInWindow)
      ELSE HardCut

\* C29: with chunkSize 1000 and overlap 200, or a scaled-down pair of the
\* same ratio, the loop of splitSectionIntoChunks ends on every section: in
\* every pass the window start grows, after a cut at a break point and
\* after a hard cut alike, and stays within the section, so that it reaches
\* the section's length; and every chunk is at most chunkSize long.
C29_WindowLoopTerminates ==
  /\ [][/\ lab'.start > lab.start
        /\ lab'.start <= Len(lab.section)
        /\ Len(lab'.chunk) <= lab.chunkSize
        /\ \A i \in 1..Len(lab'.chunks) : Len(lab'.chunks[i]) <= lab.chunkSize]_vars
  /\ <>(lab.start >= Len(lab.section))

\* C29, its case: the loop has ended on a section of the default window
\* size after a cut at a break point and hard cuts
C29_LoopEndedAfterSeveralPasses ==
  /\ lab.machine = "window"
  /\ lab.chunkSize = DefaultChunkSize /\ lab.overlap = DefaultOverlap
  /\ lab.passes >= 3
  /\ lab.start >= Len(lab.section)
  /\ Len(lab.chunks[1]) < DefaultChunkSize
  /\ Len(lab.chunks[2]) = DefaultChunkSize


(***************************************************************************)
(* The context and the sources of one answer                               *)
(***************************************************************************)
\* the entry of the context that source number i would be
ContextEntry(i) == "[Source " \o NumeralOf(i) \o "]: " \o lab.sources[i].text

InContext(i) == i <= ContextSources /\ includes(lab.context, ContextEntry(i))

\* C28: of every answer, the sources are the entries the context was built
\* from: there are never more than 8 of them and none is a chunk outside the
\* context.
C28_SourcesAreTheContextEntries ==
  Retrieved =>
    /\ Len(lab.sources) <= ContextSources
    /\ \A i \in 1..Len(lab.sources) : InContext(i)

\* what the code keeps: the first 8 sources, in their order, are the entries
\* of the context
C28_FirstSourcesAreTheContext ==
  Retrieved =>
    \A i \in 1..Min2(ContextSources, Len(lab.sources)) : InContext(i)

C28_NineSources == Retrieved /\ Len(lab.sources) > ContextSources


(***************************************************************************)
(* What GET /api/stats reports                                             *)
(***************************************************************************)
\* C30: after any sequence of uploads, deletions and queries, GET /api/stats
\* reports totalDocuments equal to the number of stored documents and
\* totalQueries equal to the number of query records stored so far, however
\* many there are.
C30_StatsCountEveryRecord ==
  StatsReported =>
    /\ lab.stats.totalDocuments = Len(lab.documents)
    /\ lab.stats.totalQueries = Len(lab.queries)

\* what the code keeps: the documents are all counted, the query records up
\* to the 10 that getRecentQueries returns
C30_StatsCountRecentRecords ==
  StatsReported =>
    /\ lab.stats.totalDocuments = Len(lab.documents)
    /\ lab.stats.totalQueries = Min2(RecentQueries, Len(lab.queries))

C30_ElevenRecordsReported ==
  StatsReported /\ Len(lab.queries) > RecentQueries /\ Len(lab.documents) > 0

=============================================================================
